---- MODULE Spec2Model ----
(***************************************************************************)
(* OAuth2 authorization-code broker (InvokIT/oauth2-broker).               *)
(*                                                                         *)
(* Spec      : the Express app (apps/oauth2.ts, two revisions) with its    *)
(*             document-id keyed Firestore store.                          *)
(* SpecStore : the two ITokenStorage classes, MemoryTokenStorage and       *)
(*             FirestoreTokenStorage, driven by direct calls.              *)
(*                                                                         *)
(* JavaScript values: an absent / null / undefined / empty string is "";   *)
(* a nullable number is the set {} (null) or {n}.  Text sent to the device *)
(* (query strings, JSON) carries numbers as their decimal text.            *)
(***************************************************************************)
EXTENDS Integers, Sequences, FiniteSets, TLC

VARIABLES
    now,          \* wall clock, seconds
    coll,         \* the Express app's Firestore collection: a set of documents
    received,     \* how many requests the app has received
    reqs,         \* the requests in flight, by serial number
    finished,     \* the request whose handler ended last
    mem,          \* MemoryTokenStorage.tokens
    fs,           \* FirestoreTokenStorage's collection: a set of documents
    issued,       \* how many storage calls have been made
    calls,        \* the storage calls in flight, by serial number
    last,         \* the storage call that returned last
    env,          \* the deployment's configuration, as the modules read it
    phase,        \* "loading" the modules, "serving" requests, or "exited"
    cookies       \* each device's browser: the oauth2-state cookie it holds

vars == <<now, coll, received, reqs, finished, mem, fs, issued, calls, last, env, phase, cookies>>

bootVars == <<env, phase>>
jarVars == <<cookies>>
appVars == <<now, coll, received, reqs, finished, bootVars, jarVars>>
storeVars == <<mem, fs, issued, calls, last, bootVars, jarVars>>

----------------------------------------------------------------------------
(* Bounds *)

MaxRequests == 2
MaxTicks == 1
MaxCalls == 3

----------------------------------------------------------------------------
(* Values *)

DeviceIds == {"d1", "d2"}
ProviderNames == {"dropbox", "google"}

RefreshTokens == {"rt1"}
AuthCodes == {"abc123"}

\* nullable numbers
NullNum == {}
Num(n) == {n}
ValOf(x) == CHOOSE n \in x : TRUE
TruthyNum(x) == x # {} /\ ValOf(x) # 0
\* querystring.stringify / JSON text of a nullable number
NumText(x) == IF x = {} THEN "" ELSE ToString(ValOf(x))

\* seconds the clock advances in one Tick
TickSeconds == {40}
\* expires_in values a provider answers with (absent, or fresh for less than one tick)
ExpiresInValues == {NullNum, Num(90)}

----------------------------------------------------------------------------
(* Configuration: functions.config().oauth2 / process.env *)

\* a deployment with everything configured
ConfiguredEnv ==
    [ return_uri |-> "app://return",
      dropbox    |-> [client_id |-> "cid_dropbox", client_secret |-> "sec_dropbox"],
      google     |-> [client_id |-> "cid_google", client_secret |-> "sec_google"] ]

\* the deployments: any of the settings may be missing
Envs ==
    [ return_uri : {"", "app://return"},
      dropbox    : [client_id : {"", "cid_dropbox"}, client_secret : {"", "sec_dropbox"}],
      google     : [client_id : {"", "cid_google"}, client_secret : {"", "sec_google"}] ]

----------------------------------------------------------------------------
(* Provider registry: oauth2-providers.ts *)

dropbox ==
    [ authorization_uri |-> "https://www.dropbox.com/oauth2/authorize",
      client_id         |-> env.dropbox.client_id,
      client_secret     |-> env.dropbox.client_secret,
      force_reapprove   |-> "true",
      revoke_uri        |-> "https://api.dropboxapi.com/2/auth/token/revoke",
      scope             |-> "",
      token_uri         |-> "https://api.dropboxapi.com/oauth2/token" ]

google ==
    [ access_type       |-> "offline",
      authorization_uri |-> "https://accounts.google.com/o/oauth2/v2/auth",
      client_id         |-> env.google.client_id,
      client_secret     |-> env.google.client_secret,
      prompt            |-> "select_account",
      revoke_uri        |-> "https://accounts.google.com/o/oauth2/revoke",
      scope             |-> "userinfo.profile photoslibrary.readonly",
      token_uri         |-> "https://www.googleapis.com/oauth2/v4/token" ]

providers(providerName) ==
    IF providerName = "dropbox" THEN dropbox ELSE google

----------------------------------------------------------------------------
(* Configuration and small helpers of the Express app *)

OAUTH2_RETURN_URI == env.return_uri
FRESHNESS_WINDOW == 60 * 1

createRedirectUri(providerName) ==
    "https://broker/oauth2/" \o providerName \o "/callback"

\* uuidv5(device_id, OAUTH2_STATE_UUID_NAMESPACE).toString("base64"): a keyed
\* hash of the device id, taken to be collision free
oauth2_state(device_id) == "uuidv5(ns," \o device_id \o ")"

\* a plausible slip: the test inverted twice too few, never true for a string
isOAuth2ErrorResponseNever(body) == FALSE

\* return !!query.error
isOAuth2ErrorResponse(body) == body.error # ""

\* parseOauth2TokenResponse: the JSON body, whatever the HTTP status; res.json()
\* throws on a body that is no JSON
parseOauth2TokenResponse(response) == response.body

\* the message of the error res.json() throws (node-fetch: "invalid json
\* response body at <url> reason: <parser message>")
InvalidJsonMessage == "invalid json response body"

----------------------------------------------------------------------------
(* What the provider's token endpoint may answer *)

EmptyBody ==
    [access_token |-> "", expires_in |-> NullNum, refresh_token |-> "", error |-> ""]

\* the access token the provider issues in answer to request number serial
IssuedToken(serial) == "at" \o ToString(serial)

SuccessBodies(serial) ==
    [ access_token  : {IssuedToken(serial)},
      expires_in    : ExpiresInValues,
      refresh_token : RefreshTokens \cup {""},
      error         : {""} ]

\* the error codes of OAuth2ErrorResponse, and invalid_grant, the code a token
\* endpoint answers a bad code or refresh token with
OAuth2ErrorCodes ==
    { "invalid_request", "unauthorized_client", "access_denied",
      "unsupported_response_type", "invalid_scope", "server_error",
      "temporarily_unavailable", "invalid_grant" }

ErrorBodies ==
    [ access_token  : {""},
      expires_in    : {NullNum},
      refresh_token : {""},
      error         : {"invalid_grant"} ]

\* 2xx with tokens, 2xx or non-2xx with an OAuth2 error, non-2xx with a JSON
\* body that holds no error field, non-2xx with a body that is no JSON (json
\* tells whether res.json() returns)
TokenEndpointResponses(serial) ==
    [ok : {TRUE}, json : {TRUE}, body : SuccessBodies(serial)]
        \cup [ok : BOOLEAN, json : {TRUE}, body : ErrorBodies]
        \cup [ok : {FALSE}, json : BOOLEAN, body : {EmptyBody}]

----------------------------------------------------------------------------
(* Firestore documents addressed by id: collection.doc(id).set / get / delete *)

\* a plausible slip: collection.add(data), a new document with a generated id
DocAdd(c, id, data) ==
    c \cup {[id |-> "auto" \o ToString(Cardinality(c))] @@ data}

\* docRef.set(data): the document with this id is created or replaced
DocSet(c, id, data) ==
    {x \in c : x.id # id} \cup {[id |-> id] @@ data}

DocGet(c, id) == {x \in c : x.id = id}

DocDelete(c, id) == {x \in c : x.id # id}

\* `${device_id}:${providerName}`
docId(device_id, providerName) == device_id \o ":" \o providerName

\* a plausible slip: the two token fields written the wrong way round
saveTokensDataSwapped(device_id, providerName, tokens, t) ==
    [ device_id     |-> device_id,
      provider      |-> providerName,
      access_token  |-> tokens.refresh_token,
      expires_at    |-> IF TruthyNum(tokens.expires_in)
                          THEN Num(t + ValOf(tokens.expires_in))
                          ELSE NullNum,
      refresh_token |-> tokens.access_token ]

\* a plausible slip: expires_in stored as it came, relative
saveTokensDataRelative(device_id, providerName, tokens, t) ==
    [ device_id     |-> device_id,
      provider      |-> providerName,
      access_token  |-> tokens.access_token,
      expires_at    |-> IF TruthyNum(tokens.expires_in)
                          THEN tokens.expires_in
                          ELSE NullNum,
      refresh_token |-> tokens.refresh_token ]

\* saveTokens, up to the call of docRef.set: the document data, with the
\* expiry made absolute at time t
saveTokensData(device_id, providerName, tokens, t) ==
    [ device_id     |-> device_id,
      provider      |-> providerName,
      access_token  |-> tokens.access_token,
      expires_at    |-> IF TruthyNum(tokens.expires_in)
                          THEN Num(t + ValOf(tokens.expires_in))
                          ELSE NullNum,
      refresh_token |-> tokens.refresh_token ]

\* a plausible slip: the write never issued
saveTokensNothing(c, data) == c

\* saveTokens: await docRef.set(data)
saveTokens(c, data) == DocSet(c, docId(data.device_id, data.provider), data)

NoTokens ==
    [found |-> FALSE, access_token |-> "", expires_in |-> NullNum, refresh_token |-> ""]

\* loadTokens at time t: null, or the record with expires_in relative to t
loadTokens(c, device_id, providerName, t) ==
    LET docs == DocGet(c, docId(device_id, providerName)) IN
    IF docs = {} THEN NoTokens
    ELSE LET doc == CHOOSE x \in docs : TRUE IN
         [ found         |-> TRUE,
           access_token  |-> doc.access_token,
           expires_in    |-> IF doc.expires_at # NullNum
                               THEN Num(ValOf(doc.expires_at) - t)
                               ELSE NullNum,
           refresh_token |-> doc.refresh_token ]

\* a plausible slip: the delete of another collection's document
deleteTokensElsewhere(c, device_id, providerName) == c

\* deleteTokens: docRef.delete()
deleteTokens(c, device_id, providerName) ==
    DocDelete(c, docId(device_id, providerName))

\* a plausible slip: the window taken in milliseconds
tokenExpiredMillis(tokens) ==
    /\ tokens.found
    /\ tokens.expires_in # NullNum
    /\ ValOf(tokens.expires_in) < FRESHNESS_WINDOW * 1000

\* const tokenExpired = tokens && tokens.expires_in !== null && tokens.expires_in < 60 * 1
\* a plausible slip: the null test left out; null < 60 is true
tokenExpiredNullIsZero(tokens) ==
    /\ tokens.found
    /\ (IF tokens.expires_in = NullNum THEN 0 ELSE ValOf(tokens.expires_in)) < FRESHNESS_WINDOW

tokenExpired(tokens) ==
    /\ tokens.found
    /\ tokens.expires_in # NullNum
    /\ ValOf(tokens.expires_in) < FRESHNESS_WINDOW

----------------------------------------------------------------------------
(* Requests to the provider and responses to the device *)

fetchTokensRequest(providerName, authCode) ==
    [ uri  |-> providers(providerName).token_uri,
      body |-> [ client_id     |-> providers(providerName).client_id,
                 code          |-> authCode,
                 client_secret |-> providers(providerName).client_secret,
                 grant_type    |-> "authorization_code",
                 redirect_uri  |-> createRedirectUri(providerName) ] ]

refreshTokensRequest(providerName, refresh_token) ==
    [ uri  |-> providers(providerName).token_uri,
      body |-> [ client_id     |-> providers(providerName).client_id,
                 client_secret |-> providers(providerName).client_secret,
                 grant_type    |-> "refresh_token",
                 refresh_token |-> refresh_token ] ]

NoParams == [k \in {} |-> ""]
NoResponse == [type |-> "none", status |-> 0, to |-> "", params |-> NoParams]
Redirect(to, params) == [type |-> "redirect", status |-> 302, to |-> to, params |-> params]
Json(status, params) == [type |-> "json", status |-> status, to |-> "", params |-> params]
SendStatus(status) == [type |-> "status", status |-> status, to |-> "", params |-> NoParams]

\* An error thrown from an async route handler.  The handlers are registered
\* after the boom error handler, so that handler never sees the error: under
\* Express 4 the rejected promise is dropped and no response is sent; under
\* Express 5 the default handler answers 500, a boom error having no status of
\* its own.
ThrownFromAsyncHandler == {NoResponse, SendStatus(500)}

----------------------------------------------------------------------------
(* Requests served by the Express app *)

NoQuery == [state |-> "", error |-> "", code |-> ""]
NoData == saveTokensData("", "", EmptyBody, 0)

\* A request as the handler sees it, plus a record of what happened: when it
\* arrived (at), whether the token endpoint answered 2xx (ok), the POSTs sent
\* to the provider (posts), the writes to the collection (writes), and the
\* documents of its key when it read or wrote them and right after its write
\* (before, after).
Request(kind, device_id, providerName, query) ==
    [ kind         |-> kind,
      device_id    |-> device_id,
      providerName |-> providerName,
      query        |-> query,
      at           |-> 0,
      pc           |-> "done",
      tokens       |-> NoTokens,
      ok           |-> FALSE,
      tokenRes     |-> EmptyBody,
      data         |-> NoData,
      posts        |-> <<>>,
      writes       |-> <<>>,
      before       |-> {},
      after        |-> {},
      removed      |-> {},
      res          |-> NoResponse ]

NoRequest == Request("none", "", "", NoQuery)

\* the callback queries a browser may arrive with
CallbackQueries ==
    [ state : {oauth2_state(d) : d \in DeviceIds} \cup {""},
      error : {"", "access_denied"},
      code  : AuthCodes ]

KeyDocs(c, device_id, providerName) ==
    {x \in c : x.device_id = device_id /\ x.provider = providerName}

\* a request arrives and its handler runs up to its first await, or to its end
Receive(r) ==
    /\ received < MaxRequests
    /\ received' = received + 1
    /\ UNCHANGED storeVars
    /\ IF r.pc = "done"
         THEN finished' = r /\ UNCHANGED reqs
         ELSE reqs' = (received + 1 :> r) @@ reqs /\ UNCHANGED finished

\* the handler of request i resumes and runs up to its next await, or to its end
Resume(i, r) ==
    /\ UNCHANGED <<received, storeVars>>
    /\ IF r.pc = "done"
         THEN finished' = r /\ reqs' = [j \in DOMAIN reqs \ {i} |-> reqs[j]]
         ELSE reqs' = [reqs EXCEPT ![i] = r] /\ UNCHANGED finished

\* a provider name absent from the registry
UnknownProviders == {"nosuch"}

\* boom.badRequest("device_id not defined.") as the error handler sends it:
\* res.status(err.output.statusCode).json(err.output.payload)
BadRequestAnswer ==
    Json(400, [statusCode |-> "400", error |-> "Bad Request", message |-> "device_id not defined."])

\* next(boom.notFound("Unknown provider.")) from app.param: the parameter is
\* processed at the route's place in the stack, past the error handler, so
\* the error falls to Express's final handler, which reads err.status and
\* err.statusCode, finds neither on a boom error and answers 500
UnknownProviderAnswer == SendStatus(500)

\* device_id middleware and app.param("provider"): a request, to any route,
\* that carries no device id or names a provider that providers[providerName]
\* does not hold; no route handler is called
Refuse(device_id, providerName) ==
    LET r == Request("refused", device_id, providerName, NoQuery)
    IN  /\ device_id = "" \/ providerName \notin ProviderNames
        /\ Receive([r EXCEPT !.res = IF device_id = ""
                                       THEN BadRequestAnswer
                                       ELSE UnknownProviderAnswer])
        /\ UNCHANGED <<now, coll>>

\* a plausible slip: the whole provider config is spread into the query
requestParamsSpread(device_id, providerName) ==
    [ client_id     |-> providers(providerName).client_id,
      client_secret |-> providers(providerName).client_secret,
      redirect_uri  |-> createRedirectUri(providerName),
      response_type |-> "code",
      scope         |-> providers(providerName).scope,
      state         |-> oauth2_state(device_id) ]

\* const requestParams: OAuth2AuthRequestParams = { ... }
requestParams(device_id, providerName) ==
    [ client_id     |-> providers(providerName).client_id,
      redirect_uri  |-> createRedirectUri(providerName),
      response_type |-> "code",
      scope         |-> providers(providerName).scope,
      state         |-> oauth2_state(device_id) ]

\* a plausible slip: the flow begun is recorded under its key, to be filled in
\* by the callback
beginAuthStorePending(c, device_id, providerName) ==
    saveTokens(c, saveTokensData(device_id, providerName, EmptyBody, 0))

\* the collection after app.get("/:provider/auth"): the handler calls none of
\* saveTokens, loadTokens, deleteTokens
beginAuthStore(c, device_id, providerName) == c

\* app.get("/:provider/auth"): res.cookie, res.redirect
BeginAuth(device_id, providerName) ==
    LET r == Request("auth", device_id, providerName, NoQuery)
    IN  /\ Receive([r EXCEPT !.res = Redirect(providers(providerName).authorization_uri,
                                              requestParams(device_id, providerName))])
        /\ coll' = beginAuthStore(coll, device_id, providerName)
        /\ UNCHANGED now

\* a plausible slip: every failure reported under one generic code
errorRedirectGeneric(providerName, message) ==
    Redirect(OAUTH2_RETURN_URI, [provider |-> providerName, error |-> "server_error"])

\* catch (err) { res.redirect(`${OAUTH2_RETURN_URI}#${querystring.stringify({
\* provider: providerName, error: err.message })}`) }
errorRedirect(providerName, message) ==
    Redirect(OAUTH2_RETURN_URI, [provider |-> providerName, error |-> message])

\* a plausible slip: the state is looked for among the states of all devices
stateUnknown(query, device_id) == query.state \notin {oauth2_state(d) : d \in DeviceIds}

\* a plausible slip: the comparison made with a field the request lacks,
\* undefined, which no presented state equals
stateNeverMatches(query, device_id) == TRUE

\* a plausible slip: only a missing state is refused
stateMissing(query, device_id) == query.state = ""

\* if (oauth2_response.state !== oauth2_state)
stateMismatch(query, device_id) == query.state # oauth2_state(device_id)

\* app.get(":/provider/callback"), up to the await of fetchTokensFromProvider
HandleCallback(device_id, providerName, query) ==
    LET r == Request("callback", device_id, providerName, query)
        failed(code) == [r EXCEPT !.res = errorRedirect(providerName, code)]
    IN  /\ Receive(IF stateMismatch(query, device_id)
                     THEN failed("invalid_request")
                   ELSE IF isOAuth2ErrorResponse(query)
                     THEN failed(query.error)
                   ELSE [r EXCEPT !.pc = "exchange",
                                  !.posts = <<fetchTokensRequest(providerName, query.code)>>])
        /\ UNCHANGED <<now, coll>>

\* app.get(":/provider/callback"): the token endpoint answered
CallbackExchanged(i, response) ==
    LET r == reqs[i]
        tokenRes == parseOauth2TokenResponse(response)
    IN  /\ r.kind = "callback" /\ r.pc = "exchange"
        /\ Resume(i,
              IF ~response.json
                THEN [r EXCEPT !.pc = "done",
                               !.ok = response.ok,
                               !.res = errorRedirect(r.providerName, InvalidJsonMessage)]
              ELSE IF isOAuth2ErrorResponse(tokenRes)
                THEN [r EXCEPT !.pc = "done",
                               !.ok = response.ok,
                               !.tokenRes = tokenRes,
                               !.res = errorRedirect(r.providerName, tokenRes.error)]
                ELSE [r EXCEPT !.pc = "saving",
                               !.ok = response.ok,
                               !.tokenRes = tokenRes,
                               !.data = saveTokensData(r.device_id, r.providerName,
                                   [ access_token  |-> tokenRes.access_token,
                                     expires_in    |-> IF TruthyNum(tokenRes.expires_in)
                                                         THEN tokenRes.expires_in ELSE NullNum,
                                     refresh_token |-> tokenRes.refresh_token ], now)])
        /\ UNCHANGED <<now, coll>>

\* app.get(":/provider/callback"): saveTokens returned, the browser is sent back
CallbackSaved(i) ==
    LET r == reqs[i] IN
        /\ r.kind = "callback" /\ r.pc = "saving"
        /\ coll' = saveTokens(coll, r.data)
        /\ Resume(i,
              [r EXCEPT !.pc = "done",
                        !.writes = Append(@, [op |-> "set", id |-> docId(r.device_id, r.providerName)]),
                        !.before = KeyDocs(coll, r.device_id, r.providerName),
                        !.after = KeyDocs(coll', r.device_id, r.providerName),
                        !.res = Redirect(OAUTH2_RETURN_URI,
                            [ provider     |-> r.providerName,
                              access_token |-> r.tokenRes.access_token,
                              expires_in   |-> NumText(r.tokenRes.expires_in) ])])
        /\ UNCHANGED now

\* app.get(":/provider/tokens"), up to the first await after loadTokens
GetTokens(device_id, providerName) ==
    LET tokens == loadTokens(coll, device_id, providerName, now)
        r == [Request("tokens", device_id, providerName, NoQuery) EXCEPT
                 !.at = now,
                 !.tokens = tokens,
                 !.before = KeyDocs(coll, device_id, providerName)]
    IN  /\ Receive(IF ~tokens.found
                     THEN [r EXCEPT !.res = SendStatus(404)]
                   ELSE IF tokens.refresh_token # "" /\ tokenExpired(tokens)
                     THEN [r EXCEPT !.pc = "refreshing",
                                    !.posts = <<refreshTokensRequest(providerName, tokens.refresh_token)>>]
                   ELSE IF tokenExpired(tokens)
                     THEN [r EXCEPT !.pc = "deleting_expired"]
                   ELSE [r EXCEPT !.res = Json(200,
                             [ access_token |-> tokens.access_token,
                               expires_in   |-> NumText(tokens.expires_in) ])])
        /\ UNCHANGED <<now, coll>>

\* app.get(":/provider/tokens"): the token endpoint answered the refresh
TokensRefreshed(i, response) ==
    LET r == reqs[i]
        tokenRes == parseOauth2TokenResponse(response)
        tokens == [ found         |-> TRUE,
                    access_token  |-> tokenRes.access_token,
                    expires_in    |-> IF TruthyNum(tokenRes.expires_in)
                                        THEN tokenRes.expires_in ELSE NullNum,
                    refresh_token |-> tokenRes.refresh_token ]
    IN  /\ r.kind = "tokens" /\ r.pc = "refreshing"
        /\ \E answer \in ThrownFromAsyncHandler :
           Resume(i,
              IF ~response.json
                THEN [r EXCEPT !.pc = "done", !.ok = response.ok, !.res = answer]
              ELSE IF isOAuth2ErrorResponse(tokenRes)
                THEN [r EXCEPT !.pc = "deleting_rejected",
                               !.ok = response.ok,
                               !.tokenRes = tokenRes]
                ELSE [r EXCEPT !.pc = "saving",
                               !.ok = response.ok,
                               !.tokenRes = tokenRes,
                               !.data = saveTokensData(r.device_id, r.providerName, tokens, now)])
        /\ UNCHANGED <<now, coll>>

\* app.get(":/provider/tokens"): saveTokens returned, the new tokens are sent
TokensSaved(i) ==
    LET r == reqs[i] IN
        /\ r.kind = "tokens" /\ r.pc = "saving"
        /\ coll' = saveTokens(coll, r.data)
        /\ Resume(i,
              [r EXCEPT !.pc = "done",
                        !.writes = Append(@, [op |-> "set", id |-> docId(r.device_id, r.providerName)]),
                        !.after = KeyDocs(coll', r.device_id, r.providerName),
                        !.res = Json(200,
                            [ access_token |-> r.tokenRes.access_token,
                              expires_in   |-> NumText(IF TruthyNum(r.tokenRes.expires_in)
                                                         THEN r.tokenRes.expires_in ELSE NullNum) ])])
        /\ UNCHANGED now

\* app.get(":/provider/tokens"): deleteTokens returned, and the handler throws
\* boom.badGateway(tokenRes.error) after a rejected refresh, boom.notFound()
\* for a record that is expired and has no refresh token
TokensDeleted(i) ==
    LET r == reqs[i] IN
        /\ r.kind = "tokens" /\ r.pc \in {"deleting_rejected", "deleting_expired"}
        /\ coll' = deleteTokens(coll, r.device_id, r.providerName)
        /\ \E answer \in ThrownFromAsyncHandler :
              Resume(i,
                  [r EXCEPT !.pc = "done",
                            !.writes = Append(@, [op |-> "delete", id |-> docId(r.device_id, r.providerName)]),
                            !.after = KeyDocs(coll', r.device_id, r.providerName),
                            !.removed = coll \ coll',
                            !.res = answer])
        /\ UNCHANGED now

\* the earlier revision of the same handler: res.json({ error: tokenRes.error })
\* after a rejected refresh, res.sendStatus(httpStatus.NOT_FOUND) for a record
\* that is expired and has no refresh token
TokensDeletedPlain(i) ==
    LET r == reqs[i] IN
        /\ r.kind = "tokens" /\ r.pc \in {"deleting_rejected", "deleting_expired"}
        /\ coll' = deleteTokens(coll, r.device_id, r.providerName)
        /\ Resume(i,
              [r EXCEPT !.pc = "done",
                        !.writes = Append(@, [op |-> "delete", id |-> docId(r.device_id, r.providerName)]),
                        !.after = KeyDocs(coll', r.device_id, r.providerName),
                        !.removed = coll \ coll',
                        !.res = IF r.pc = "deleting_rejected"
                                  THEN Json(200, [error |-> r.tokenRes.error])
                                  ELSE SendStatus(404)])
        /\ UNCHANGED now

\* app.get(":/provider/callback"): docRef.set rejects, nothing is written; the
\* inner catch throws Error("server_error"), the outer catch redirects with it
CallbackSaveFailed(i) ==
    LET r == reqs[i] IN
        /\ r.kind = "callback" /\ r.pc = "saving"
        /\ Resume(i,
              [r EXCEPT !.pc = "done",
                        !.writes = Append(@, [op |-> "set_failed", id |-> docId(r.device_id, r.providerName)]),
                        !.res = errorRedirect(r.providerName, "server_error")])
        /\ UNCHANGED <<now, coll>>

\* the earlier revision of the same handler: await saveTokens(...) stands in
\* no try block, the rejection leaves the async handler
CallbackSaveFailedPlain(i) ==
    LET r == reqs[i] IN
        /\ r.kind = "callback" /\ r.pc = "saving"
        /\ \E answer \in ThrownFromAsyncHandler :
              Resume(i,
                  [r EXCEPT !.pc = "done",
                            !.writes = Append(@, [op |-> "set_failed", id |-> docId(r.device_id, r.providerName)]),
                            !.res = answer])
        /\ UNCHANGED <<now, coll>>

\* app.get(":/provider/tokens"): docRef.set rejects after a refresh; the
\* rejection leaves the async handler (both revisions)
TokensSaveFailed(i) ==
    LET r == reqs[i] IN
        /\ r.kind = "tokens" /\ r.pc = "saving"
        /\ \E answer \in ThrownFromAsyncHandler :
              Resume(i,
                  [r EXCEPT !.pc = "done",
                            !.writes = Append(@, [op |-> "set_failed", id |-> docId(r.device_id, r.providerName)]),
                            !.res = answer])
        /\ UNCHANGED <<now, coll>>

\* time passes
Tick ==
    /\ now < MaxTicks * 40
    /\ \E dt \in TickSeconds : now' = now + dt
    /\ UNCHANGED <<coll, received, reqs, finished, storeVars>>

----------------------------------------------------------------------------
(* MemoryTokenStorage: tokens[deviceId][provider], a map of maps *)

\* the ITokens records the storage classes are called with
Records ==
    { [access_token |-> "at1", expires_at |-> Num(3600), refresh_token |-> "rt1"],
      [access_token |-> "at2", expires_at |-> NullNum, refresh_token |-> ""] }

\* load answers with a record or with null
NoRecord == [access_token |-> "", expires_at |-> NullNum, refresh_token |-> "", null |-> TRUE]

\* MemoryTokenStorage.load
MemoryLoad(m, deviceId, provider) ==
    IF deviceId \in DOMAIN m /\ provider \in DOMAIN m[deviceId]
      THEN m[deviceId][provider]
      ELSE NoRecord

\* a plausible slip: the device's map is replaced, not extended
MemorySaveWholeDevice(m, deviceId, provider, tokens) ==
    IF deviceId \in DOMAIN m
      THEN [m EXCEPT ![deviceId] = (provider :> tokens)]
      ELSE (deviceId :> (provider :> tokens)) @@ m

\* MemoryTokenStorage.save
MemorySave(m, deviceId, provider, tokens) ==
    IF deviceId \in DOMAIN m
      THEN [m EXCEPT ![deviceId] = (provider :> tokens) @@ @]
      ELSE (deviceId :> (provider :> tokens)) @@ m

\* a plausible slip: the condition inverted, so nothing stored is ever removed
MemoryDeleteNever(m, deviceId, provider) == m

\* MemoryTokenStorage.delete
MemoryDelete(m, deviceId, provider) ==
    IF deviceId \in DOMAIN m /\ provider \in DOMAIN m[deviceId]
      THEN [m EXCEPT ![deviceId] = [q \in DOMAIN @ \ {provider} |-> @[q]]]
      ELSE m

----------------------------------------------------------------------------
(* FirestoreTokenStorage: documents with generated ids, found by query.     *)
(* The collection is held as, for each (device_id, provider), its documents *)
(* in ascending order of document id: the order a query without orderBy     *)
(* answers in.  A document's ref is the serial of the call that added it.   *)

Keys == DeviceIds \X ProviderNames

\* firebase.firestore().collection("oauth2_tokens"), nothing stored yet
EmptyCollection == [k \in Keys |-> <<>>]

\* .where("device_id", "==", deviceId).where("provider", "==", provider)
FsWhere(c, deviceId, provider) == c[<<deviceId, provider>>]

\* .limit(1)
FsLimit1(docs) == IF docs = <<>> THEN <<>> ELSE <<docs[1]>>

\* the refs of a query's documents
FsRefs(docs) == {docs[j].ref : j \in DOMAIN docs}

FsExists(c, ref) == \E k \in DOMAIN c : ref \in FsRefs(c[k])

\* a plausible slip: the query of load, with its limit(1), copied into delete
FsDeleteQueryLimit1(c, deviceId, provider) == FsLimit1(FsWhere(c, deviceId, provider))

\* delete's query: .where(...).where(...).select().get(), every match
FsDeleteQuery(c, deviceId, provider) == FsWhere(c, deviceId, provider)

\* FirestoreTokenStorage.load
FirestoreLoad(c, deviceId, provider) ==
    LET docs == FsLimit1(FsWhere(c, deviceId, provider)) IN
    IF docs = <<>> THEN NoRecord
    ELSE [ access_token  |-> docs[1].access_token,
           expires_at    |-> docs[1].expires_at,
           refresh_token |-> docs[1].refresh_token ]

\* collection().add(data): the generated id puts the new document at place
\* at among the documents of its key
FsAdd(c, at, ref, deviceId, provider, tokens) ==
    LET doc == [ ref           |-> ref,
                 device_id     |-> deviceId,
                 provider      |-> provider,
                 access_token  |-> tokens.access_token,
                 expires_at    |-> tokens.expires_at,
                 refresh_token |-> tokens.refresh_token ]
    IN [c EXCEPT ![<<deviceId, provider>>] =
                    SubSeq(@, 1, at - 1) \o <<doc>> \o SubSeq(@, at, Len(@))]

\* a plausible slip: the update branch left out of the upsert
FsUpdateNothing(c, ref, tokens) == c

\* lr.docs[0].ref.update(tokens), the document still being there
FsUpdate(c, ref, tokens) ==
    [k \in DOMAIN c |->
        [j \in DOMAIN c[k] |->
            IF c[k][j].ref = ref
              THEN [c[k][j] EXCEPT !.access_token = tokens.access_token,
                                   !.expires_at = tokens.expires_at,
                                   !.refresh_token = tokens.refresh_token]
              ELSE c[k][j]]]

FsKeeps(ref, x) == x.ref # ref

\* a plausible slip: the documents are queried and none is deleted
FsDeleteNothing(c, ref) == c

\* d.ref.delete()
FsDelete(c, ref) == [k \in DOMAIN c |-> SelectSeq(c[k], LAMBDA x : FsKeeps(ref, x))]

----------------------------------------------------------------------------
(* Calls on the two storage classes.  Every call is made on both: the       *)
(* MemoryTokenStorage method has no await in it and runs at once, the       *)
(* FirestoreTokenStorage method runs one Firestore operation per step.      *)

NoCall ==
    [ op |-> "none", deviceId |-> "", provider |-> "", tokens |-> NoRecord,
      pc |-> "done", refs |-> {}, todo |-> {}, alone |-> TRUE,
      memoryHad |-> FALSE, memoryResult |-> NoRecord, memoryChanged |-> FALSE,
      firestoreHad |-> FALSE, firestoreResult |-> NoRecord,
      firestoreFailed |-> FALSE, firestoreChanged |-> FALSE,
      prevOp |-> "none", prevDeviceId |-> "", prevProvider |-> "",
      prevTokens |-> NoRecord, prevRefs |-> {} ]

\* A call as it is made: what it is, what the stores hold for its key, and
\* whether any other call is in flight (alone); a load also notes the call
\* that returned right before it, when that call too ran alone (prev...).
NewCall(op, deviceId, provider, tokens) ==
    LET seq == op = "load" /\ calls = <<>> /\ last.alone IN
    [ NoCall EXCEPT
        !.op = op, !.deviceId = deviceId, !.provider = provider, !.tokens = tokens,
        !.alone = (calls = <<>>),
        !.memoryHad = (MemoryLoad(mem, deviceId, provider) # NoRecord),
        !.firestoreHad = (FsWhere(fs, deviceId, provider) # <<>>),
        !.prevOp = IF seq THEN last.op ELSE "none",
        !.prevDeviceId = IF seq THEN last.deviceId ELSE "",
        !.prevProvider = IF seq THEN last.provider ELSE "",
        !.prevTokens = IF seq THEN last.tokens ELSE NoRecord,
        !.prevRefs = IF seq THEN last.refs ELSE {} ]

\* a call is made; c is the call after its first step
Begin(c) ==
    /\ issued < MaxCalls
    /\ issued' = issued + 1
    /\ IF c.pc = "done"
         THEN /\ last' = c
              /\ calls' = [j \in DOMAIN calls |-> [calls[j] EXCEPT !.alone = FALSE]]
         ELSE /\ calls' = (issued + 1 :> c)
                            @@ [j \in DOMAIN calls |-> [calls[j] EXCEPT !.alone = FALSE]]
              /\ UNCHANGED last
    /\ UNCHANGED appVars

\* call i takes its next step; c is the call after it
Continue(i, c) ==
    /\ IF c.pc = "done"
         THEN last' = c /\ calls' = [j \in DOMAIN calls \ {i} |-> calls[j]]
         ELSE calls' = [calls EXCEPT ![i] = c] /\ UNCHANGED last
    /\ UNCHANGED <<issued, appVars>>

\* load(deviceId, provider): one query
Load(deviceId, provider) ==
    /\ Begin([ NewCall("load", deviceId, provider, NoRecord) EXCEPT
                 !.memoryResult = MemoryLoad(mem, deviceId, provider),
                 !.firestoreResult = FirestoreLoad(fs, deviceId, provider) ])
    /\ UNCHANGED <<mem, fs>>

\* save(deviceId, provider, tokens), up to the await of the query
Save(deviceId, provider, tokens) ==
    /\ mem' = MemorySave(mem, deviceId, provider, tokens)
    /\ Begin([ NewCall("save", deviceId, provider, tokens) EXCEPT
                 !.pc = "write",
                 !.memoryChanged = (mem' # mem),
                 !.refs = FsRefs(FsLimit1(FsWhere(fs, deviceId, provider))) ])
    /\ UNCHANGED fs

\* save: lr.empty ? collection().add(data) : lr.docs[0].ref.update(tokens);
\* update fails when the document has been deleted in the meantime
SaveWrite(i) ==
    LET c == calls[i] IN
        /\ c.op = "save" /\ c.pc = "write"
        /\ IF c.refs = {}
             THEN \E at \in 1..(Len(FsWhere(fs, c.deviceId, c.provider)) + 1) :
                     /\ fs' = FsAdd(fs, at, i, c.deviceId, c.provider, c.tokens)
                     /\ Continue(i, [c EXCEPT !.pc = "done", !.firestoreChanged = TRUE])
             ELSE LET ref == CHOOSE j \in c.refs : TRUE IN
                  IF FsExists(fs, ref)
                    THEN /\ fs' = FsUpdate(fs, ref, c.tokens)
                         /\ Continue(i, [c EXCEPT !.pc = "done", !.firestoreChanged = (fs' # fs)])
                    ELSE /\ fs' = fs
                         /\ Continue(i, [c EXCEPT !.pc = "done", !.firestoreFailed = TRUE])
        /\ UNCHANGED mem

\* delete(deviceId, provider), up to the await of the query
Delete(deviceId, provider) ==
    LET refs == FsRefs(FsDeleteQuery(fs, deviceId, provider)) IN
        /\ mem' = MemoryDelete(mem, deviceId, provider)
        /\ fs' = fs
        /\ Begin([ NewCall("delete", deviceId, provider, NoRecord) EXCEPT
                     !.pc = IF refs = {} THEN "done" ELSE "deleting",
                     !.memoryChanged = (mem' # mem),
                     !.firestoreChanged = (fs' # fs),
                     !.refs = refs, !.todo = refs ])

\* delete: one of the d.ref.delete() of Promise.all(r.docs.map(...))
DeleteOne(i) ==
    LET c == calls[i] IN
        /\ c.op = "delete" /\ c.pc = "deleting"
        /\ \E ref \in c.todo :
              /\ fs' = FsDelete(fs, ref)
              /\ Continue(i, [c EXCEPT !.todo = @ \ {ref},
                                       !.pc = IF c.todo = {ref} THEN "done" ELSE "deleting",
                                       !.firestoreChanged = (@ \/ fs' # fs)])
        /\ UNCHANGED mem

----------------------------------------------------------------------------
(* The Koa app (deterministic state) over FirestoreTokenStorage *)

\* seconds since 1970 at the start, scaled down so that milliseconds stay
\* within the integers of the model checker; Date.now() is far above any
\* expires_in a provider states
KoaEpoch == 2000000

\* Date.now() at clock reading t, in milliseconds
DateNow(t) == (KoaEpoch + t) * 1000

\* expires_in ? (Date.now() / 1000) - 5 + parseInt(expires_in) : null
KoaExpiresAt(expires_in, t) ==
    IF TruthyNum(expires_in) THEN Num(DateNow(t) \div 1000 - 5 + ValOf(expires_in)) ELSE NullNum

\* the record the Koa handlers pass to tokenStorage.save
KoaTokens(body, t) ==
    [ access_token  |-> body.access_token,
      expires_at    |-> KoaExpiresAt(body.expires_in, t),
      refresh_token |-> body.refresh_token ]

\* tokens.expires_at > Date.now(); null > n is false
KoaStillValid(tokens, t) ==
    tokens.expires_at # NullNum /\ ValOf(tokens.expires_at) > DateNow(t)

\* tokens that live shorter than one tick of the clock
ShortLivedBodies(serial) ==
    [ access_token  : {IssuedToken(serial)},
      expires_in    : {Num(30)},
      refresh_token : RefreshTokens \cup {""},
      error         : {""} ]

\* what the token endpoint answers the Koa app: the responses above, and
\* short-lived tokens
KoaTokenEndpointResponses(serial) ==
    TokenEndpointResponses(serial)
        \cup [ok : {TRUE}, json : {TRUE}, body : ShortLivedBodies(serial)]

\* Koa's answer when a handler returns with no body set, and when it throws
KoaNoBody == SendStatus(404)
KoaThrown == SendStatus(500)

\* `${ctx.request.protocol}://${ctx.request.host}/callback/${ctx.params.provider}`
KoaCreateRedirectUri(providerName) == "https://broker/callback/" \o providerName

\* tokenRequestParams, POSTed to provider.token_uri
KoaTokenRequest(providerName, authCode) ==
    [ uri  |-> providers(providerName).token_uri,
      body |-> [ client_id     |-> providers(providerName).client_id,
                 code          |-> authCode,
                 client_secret |-> providers(providerName).client_secret,
                 grant_type    |-> "authorization_code",
                 redirect_uri  |-> KoaCreateRedirectUri(providerName) ] ]

\* a call of tokenStorage.save as request r's record of writes notes it
KoaWrite(op, r) == [op |-> op, id |-> <<r.device_id, r.providerName>>]

\* router.get("/auth/:provider"): ctx.cookies.set, ctx.redirect
KoaAuth(device_id, providerName) ==
    LET r == Request("koa_auth", device_id, providerName, NoQuery)
    IN  /\ Receive([r EXCEPT !.res = Redirect(providers(providerName).authorization_uri,
                                  [ client_id     |-> providers(providerName).client_id,
                                    redirect_uri  |-> KoaCreateRedirectUri(providerName),
                                    response_type |-> "code",
                                    scope         |-> providers(providerName).scope,
                                    state         |-> oauth2_state(device_id) ])])
        /\ UNCHANGED <<now, coll>>

\* router.get("/callback/:provider"), up to the await of fetch
KoaCallback(device_id, providerName, query) ==
    LET r == Request("koa_callback", device_id, providerName, query)
    IN  /\ Receive(IF oauth2_state(device_id) # query.state
                     THEN [r EXCEPT !.res = Redirect(OAUTH2_RETURN_URI, [error |-> "invalid_request"])]
                   ELSE IF isOAuth2ErrorResponse(query)
                     THEN [r EXCEPT !.res = errorRedirect(providerName, query.error)]
                   ELSE [r EXCEPT !.pc = "exchange",
                                  !.posts = <<KoaTokenRequest(providerName, query.code)>>])
        /\ UNCHANGED <<now, coll>>

\* router.get("/callback/:provider"): the token endpoint answered; res.ok
\* decides, and tokenStorage.save starts with its query
KoaExchanged(i, response) ==
    LET r == reqs[i] IN
        /\ r.kind = "koa_callback" /\ r.pc = "exchange"
        /\ Resume(i,
              IF ~response.json
                THEN [r EXCEPT !.pc = "done", !.ok = response.ok, !.res = KoaThrown]
              ELSE IF response.ok
                THEN [r EXCEPT !.pc = "save_query", !.ok = TRUE, !.tokenRes = response.body,
                               !.data = KoaTokens(response.body, now)]
                ELSE [r EXCEPT !.pc = "done", !.ok = FALSE, !.tokenRes = response.body,
                               !.res = errorRedirect(r.providerName, response.body.error)])
        /\ UNCHANGED <<now, coll>>

\* FirestoreTokenStorage.save called by a handler: the query returned
KoaSaveQueried(i) ==
    LET r == reqs[i] IN
        /\ r.kind \in {"koa_callback", "koa_tokens"} /\ r.pc = "save_query"
        /\ Resume(i, [r EXCEPT !.pc = "save_write",
                               !.before = FsRefs(FsLimit1(FsWhere(fs, r.device_id, r.providerName)))])
        /\ UNCHANGED <<now, coll>>

\* what a handler sends once tokenStorage.save returned
KoaSavedAnswer(r) ==
    IF r.kind = "koa_callback"
      THEN Redirect(OAUTH2_RETURN_URI,
               [ provider     |-> r.providerName,
                 access_token |-> r.tokenRes.access_token,
                 expires_in   |-> NumText(r.tokenRes.expires_in) ])
      ELSE Json(200, [ access_token |-> r.tokenRes.access_token,
                       expires_in   |-> NumText(r.tokenRes.expires_in) ])

\* FirestoreTokenStorage.save called by a handler: add or update returned (an
\* update of a document deleted in the meantime rejects), the handler answers
KoaSaveWritten(i) ==
    LET r == reqs[i] IN
        /\ r.kind \in {"koa_callback", "koa_tokens"} /\ r.pc = "save_write"
        /\ IF r.before = {}
             THEN \E at \in 1..(Len(FsWhere(fs, r.device_id, r.providerName)) + 1) :
                     fs' = FsAdd(fs, at, i, r.device_id, r.providerName, r.data)
             ELSE fs' = FsUpdate(fs, CHOOSE j \in r.before : TRUE, r.data)
        /\ LET gone == r.before # {} /\ ~FsExists(fs, CHOOSE j \in r.before : TRUE) IN
           /\ received' = received
           /\ finished' = [r EXCEPT !.pc = "done",
                                    !.writes = Append(@, KoaWrite(IF gone THEN "set_failed" ELSE "set", r)),
                                    !.after = FsRefs(FsWhere(fs', r.device_id, r.providerName)),
                                    !.res = IF gone THEN KoaThrown ELSE KoaSavedAnswer(r)]
           /\ reqs' = [j \in DOMAIN reqs \ {i} |-> reqs[j]]
        /\ UNCHANGED <<now, coll, mem, issued, calls, last, bootVars, jarVars>>

\* router.get("/token/:provider"), up to its first await after tokenStorage.load
KoaGetToken(device_id, providerName) ==
    LET tokens == FirestoreLoad(fs, device_id, providerName)
        r == [Request("koa_tokens", device_id, providerName, NoQuery) EXCEPT
                 !.at = now,
                 !.data = tokens,
                 !.before = FsRefs(FsWhere(fs, device_id, providerName))]
    IN  /\ Receive(IF tokens = NoRecord
                     THEN [r EXCEPT !.res = Json(200, [error |-> "unauthorized_client"])]
                   ELSE IF KoaStillValid(tokens, now)
                     THEN [r EXCEPT !.res = Json(200,
                              [ access_token |-> tokens.access_token,
                                expires_in   |-> ToString(ValOf(tokens.expires_at) - DateNow(now) \div 1000) ])]
                   ELSE IF tokens.refresh_token # ""
                     THEN [r EXCEPT !.pc = "refreshing",
                                    !.posts = <<refreshTokensRequest(providerName, tokens.refresh_token)>>]
                   ELSE [r EXCEPT !.res = KoaNoBody])
        /\ UNCHANGED <<now, coll>>

\* router.get("/token/:provider"): the token endpoint answered the refresh
KoaRefreshed(i, response) ==
    LET r == reqs[i] IN
        /\ r.kind = "koa_tokens" /\ r.pc = "refreshing"
        /\ Resume(i,
              IF ~response.json
                THEN [r EXCEPT !.pc = "done", !.ok = response.ok, !.res = KoaThrown]
              ELSE IF response.ok
                THEN [r EXCEPT !.pc = "save_query", !.ok = TRUE, !.tokenRes = response.body,
                               !.data = KoaTokens(response.body, now)]
                ELSE [r EXCEPT !.pc = "done", !.ok = FALSE, !.tokenRes = response.body,
                               !.res = KoaNoBody])
        /\ UNCHANGED <<now, coll>>

----------------------------------------------------------------------------
(* The Koa app that draws its state at random and keeps it in a cookie
   (src/index.ts) *)

\* what ctx.cookies.get and ctx.query.state give when there is none
Undefined == "undefined"

\* (await randomBytes(STATE_SIZE)).toString("base64")
RandomStates == {"rnd1", "rnd2"}

\* no browser holds an oauth2-state cookie
NoCookies == [d \in DeviceIds |-> Undefined]

\* the queries a callback arrives with: a state or none, an error or none
RandomCallbackQueries ==
    [ state : RandomStates \cup {Undefined},
      error : {"", "access_denied"},
      code  : AuthCodes ]

\* a request arrives at this app and its handler runs up to its first await
\* after the cookies are set, or to its end
RandomReceive(r, jar) ==
    /\ received < MaxRequests
    /\ received' = received + 1
    /\ cookies' = jar
    /\ IF r.pc = "done"
         THEN finished' = r /\ UNCHANGED reqs
         ELSE reqs' = (received + 1 :> r) @@ reqs /\ UNCHANGED finished

\* router.get("/auth/:provider"): the state is drawn, set as the oauth2-state
\* cookie and sent along in the redirect
RandomAuth(device_id, providerName, state) ==
    LET r == Request("random_auth", device_id, providerName, NoQuery)
    IN  /\ RandomReceive(
                [r EXCEPT !.res = Redirect(providers(providerName).authorization_uri,
                                      [ client_id     |-> providers(providerName).client_id,
                                        redirect_uri  |-> KoaCreateRedirectUri(providerName),
                                        response_type |-> "code",
                                        scope         |-> providers(providerName).scope,
                                        state         |-> state ])],
                [cookies EXCEPT ![device_id] = state])
        /\ UNCHANGED <<now, coll, mem, fs, issued, calls, last, bootVars>>

\* if (cookieState !== responseState)
cookieMismatch(cookieState, responseState) == cookieState # responseState

\* router.get("/callback/:provider"), up to the await of fetch: the cookie is
\* read and cleared, then compared with the state of the query
RandomCallback(device_id, providerName, query) ==
    LET r == Request("random_callback", device_id, providerName, query)
        cookieState == cookies[device_id]
        responseState == query.state
    IN  /\ RandomReceive(
                IF cookieMismatch(cookieState, responseState)
                  THEN [r EXCEPT !.res = Redirect(OAUTH2_RETURN_URI, [error |-> "invalid_request"])]
                ELSE IF isOAuth2ErrorResponse(query)
                  THEN [r EXCEPT !.res = errorRedirect(providerName, query.error)]
                ELSE [r EXCEPT !.pc = "exchange",
                               !.posts = <<KoaTokenRequest(providerName, query.code)>>],
                [cookies EXCEPT ![device_id] = Undefined])
        /\ UNCHANGED <<now, coll, mem, fs, issued, calls, last, bootVars>>

\* router.get("/callback/:provider"): the token endpoint answered; nothing is
\* saved, the tokens go to the app in the redirect
RandomExchanged(i, response) ==
    LET r == reqs[i] IN
        /\ r.kind = "random_callback" /\ r.pc = "exchange"
        /\ Resume(i,
              IF ~response.json
                THEN [r EXCEPT !.pc = "done", !.ok = response.ok, !.res = KoaThrown]
              ELSE IF response.ok
                THEN [r EXCEPT !.pc = "done", !.ok = TRUE, !.tokenRes = response.body,
                               !.res = Redirect(OAUTH2_RETURN_URI,
                                   [ provider     |-> r.providerName,
                                     access_token |-> response.body.access_token,
                                     expires_in   |-> NumText(response.body.expires_in) ])]
                ELSE [r EXCEPT !.pc = "done", !.ok = FALSE, !.tokenRes = response.body,
                               !.res = errorRedirect(r.providerName, response.body.error)])
        /\ UNCHANGED <<now, coll>>

\* router.get("/token/:provider"): the handler is empty, Koa answers 404
RandomGetToken(device_id, providerName) ==
    /\ RandomReceive([Request("random_tokens", device_id, providerName, NoQuery) EXCEPT
                         !.res = KoaNoBody],
                     cookies)
    /\ UNCHANGED <<now, coll, mem, fs, issued, calls, last, bootVars>>

----------------------------------------------------------------------------
(* Specifications *)

Init ==
    /\ now = 0
    /\ coll = {}
    /\ received = 0
    /\ reqs = <<>>
    /\ finished = NoRequest
    /\ mem = <<>>
    /\ fs = EmptyCollection
    /\ issued = 0
    /\ calls = <<>>
    /\ last = NoCall
    /\ env = ConfiguredEnv
    /\ phase = "serving"
    /\ cookies = NoCookies

\* the Express app as it stands (boom errors)
Next ==
    \/ \E d \in DeviceIds \cup {""}, p \in ProviderNames \cup UnknownProviders : Refuse(d, p)
    \/ \E d \in DeviceIds, p \in ProviderNames : BeginAuth(d, p)
    \/ \E d \in DeviceIds, p \in ProviderNames, q \in CallbackQueries : HandleCallback(d, p, q)
    \/ \E i \in DOMAIN reqs : \E response \in TokenEndpointResponses(i) : CallbackExchanged(i, response)
    \/ \E i \in DOMAIN reqs : CallbackSaved(i)
    \/ \E d \in DeviceIds, p \in ProviderNames : GetTokens(d, p)
    \/ \E i \in DOMAIN reqs : \E response \in TokenEndpointResponses(i) : TokensRefreshed(i, response)
    \/ \E i \in DOMAIN reqs : TokensSaved(i)
    \/ \E i \in DOMAIN reqs : TokensDeleted(i)
    \/ Tick

Spec == Init /\ [][Next]_vars

\* the earlier revision of the Express app (functions/src/apps/oauth2.ts)
NextPlain ==
    \/ \E d \in DeviceIds, p \in ProviderNames : BeginAuth(d, p)
    \/ \E d \in DeviceIds, p \in ProviderNames, q \in CallbackQueries : HandleCallback(d, p, q)
    \/ \E i \in DOMAIN reqs : \E response \in TokenEndpointResponses(i) : CallbackExchanged(i, response)
    \/ \E i \in DOMAIN reqs : CallbackSaved(i)
    \/ \E d \in DeviceIds, p \in ProviderNames : GetTokens(d, p)
    \/ \E i \in DOMAIN reqs : \E response \in TokenEndpointResponses(i) : TokensRefreshed(i, response)
    \/ \E i \in DOMAIN reqs : TokensSaved(i)
    \/ \E i \in DOMAIN reqs : TokensDeletedPlain(i)
    \/ Tick

SpecPlain == Init /\ [][NextPlain]_vars

\* the Express app as it stands, over a store whose writes may fail
NextFault ==
    \/ \E d \in DeviceIds, p \in ProviderNames : BeginAuth(d, p)
    \/ \E d \in DeviceIds, p \in ProviderNames, q \in CallbackQueries : HandleCallback(d, p, q)
    \/ \E i \in DOMAIN reqs : \E response \in TokenEndpointResponses(i) : CallbackExchanged(i, response)
    \/ \E i \in DOMAIN reqs : CallbackSaved(i)
    \/ \E i \in DOMAIN reqs : CallbackSaveFailed(i)
    \/ \E d \in DeviceIds, p \in ProviderNames : GetTokens(d, p)
    \/ \E i \in DOMAIN reqs : \E response \in TokenEndpointResponses(i) : TokensRefreshed(i, response)
    \/ \E i \in DOMAIN reqs : TokensSaved(i)
    \/ \E i \in DOMAIN reqs : TokensSaveFailed(i)
    \/ \E i \in DOMAIN reqs : TokensDeleted(i)
    \/ Tick

SpecFault == Init /\ [][NextFault]_vars

\* The same under the assumption that every call to the provider and every
\* call to the store returns in the end, with a result or with an error: the
\* handler waiting on it is resumed.
SpecLive ==
    /\ Init /\ [][NextFault]_vars
    /\ WF_vars(\E i \in DOMAIN reqs : \E response \in TokenEndpointResponses(i) : CallbackExchanged(i, response))
    /\ WF_vars(\E i \in DOMAIN reqs : CallbackSaved(i) \/ CallbackSaveFailed(i))
    /\ WF_vars(\E i \in DOMAIN reqs : \E response \in TokenEndpointResponses(i) : TokensRefreshed(i, response))
    /\ WF_vars(\E i \in DOMAIN reqs : TokensSaved(i) \/ TokensSaveFailed(i))
    /\ WF_vars(\E i \in DOMAIN reqs : TokensDeleted(i))

\* the earlier revision of the Express app, over a store whose writes may fail
NextPlainFault ==
    \/ \E d \in DeviceIds, p \in ProviderNames : BeginAuth(d, p)
    \/ \E d \in DeviceIds, p \in ProviderNames, q \in CallbackQueries : HandleCallback(d, p, q)
    \/ \E i \in DOMAIN reqs : \E response \in TokenEndpointResponses(i) : CallbackExchanged(i, response)
    \/ \E i \in DOMAIN reqs : CallbackSaved(i)
    \/ \E i \in DOMAIN reqs : CallbackSaveFailedPlain(i)
    \/ \E d \in DeviceIds, p \in ProviderNames : GetTokens(d, p)
    \/ \E i \in DOMAIN reqs : \E response \in TokenEndpointResponses(i) : TokensRefreshed(i, response)
    \/ \E i \in DOMAIN reqs : TokensSaved(i)
    \/ \E i \in DOMAIN reqs : TokensSaveFailed(i)
    \/ \E i \in DOMAIN reqs : TokensDeletedPlain(i)
    \/ Tick

SpecPlainFault == Init /\ [][NextPlainFault]_vars

\* the Koa app
NextKoa ==
    \/ \E d \in DeviceIds, p \in ProviderNames : KoaAuth(d, p)
    \/ \E d \in DeviceIds, p \in ProviderNames, q \in CallbackQueries : KoaCallback(d, p, q)
    \/ \E i \in DOMAIN reqs : \E response \in KoaTokenEndpointResponses(i) : KoaExchanged(i, response)
    \/ \E i \in DOMAIN reqs : KoaSaveQueried(i)
    \/ \E i \in DOMAIN reqs : KoaSaveWritten(i)
    \/ \E d \in DeviceIds, p \in ProviderNames : KoaGetToken(d, p)
    \/ \E i \in DOMAIN reqs : \E response \in KoaTokenEndpointResponses(i) : KoaRefreshed(i, response)
    \/ Tick

SpecKoa == Init /\ [][NextKoa]_vars

\* The modules are loaded.  oauth2-providers.ts logs an error for a provider
\* whose client_id or client_secret is missing and goes on; apps/oauth2.ts
\* throws when OAUTH2_RETURN_URI is missing (the Koa app calls process.exit(1)
\* when APP_RETURN_URI is), and otherwise the app is exported and serves.
Startup ==
    /\ phase = "loading"
    /\ phase' = IF env.return_uri = "" THEN "exited" ELSE "serving"
    /\ UNCHANGED <<now, coll, received, reqs, finished, mem, fs, issued, calls, last, env, cookies>>

\* a deployment, configured in any way, before its modules are loaded
InitStartup ==
    /\ now = 0
    /\ coll = {}
    /\ received = 0
    /\ reqs = <<>>
    /\ finished = NoRequest
    /\ mem = <<>>
    /\ fs = EmptyCollection
    /\ issued = 0
    /\ calls = <<>>
    /\ last = NoCall
    /\ env \in Envs
    /\ phase = "loading"
    /\ cookies = NoCookies

\* the Express app from its start: the modules load, then requests arrive
NextStartup ==
    \/ Startup
    \/ \E d \in DeviceIds, p \in ProviderNames : phase = "serving" /\ BeginAuth(d, p)
    \/ \E d \in DeviceIds, p \in ProviderNames, q \in CallbackQueries :
          phase = "serving" /\ HandleCallback(d, p, q)
    \/ \E d \in DeviceIds, p \in ProviderNames : phase = "serving" /\ GetTokens(d, p)

SpecStartup == InitStartup /\ [][NextStartup]_vars

\* the storage classes under direct calls
NextStore ==
    \/ \E d \in DeviceIds, p \in ProviderNames : Load(d, p)
    \/ \E d \in DeviceIds, p \in ProviderNames, t \in Records : Save(d, p, t)
    \/ \E i \in DOMAIN calls : SaveWrite(i)
    \/ \E d \in DeviceIds, p \in ProviderNames : Delete(d, p)
    \/ \E i \in DOMAIN calls : DeleteOne(i)

SpecStore == Init /\ [][NextStore]_vars

\* the storage classes under calls made one after the other: a call is made
\* only once the call before it has returned
NextStoreSeq ==
    \/ \E d \in DeviceIds, p \in ProviderNames : calls = <<>> /\ Load(d, p)
    \/ \E d \in DeviceIds, p \in ProviderNames, t \in Records : calls = <<>> /\ Save(d, p, t)
    \/ \E i \in DOMAIN calls : SaveWrite(i)
    \/ \E d \in DeviceIds, p \in ProviderNames : calls = <<>> /\ Delete(d, p)
    \/ \E i \in DOMAIN calls : DeleteOne(i)

SpecStoreSeq == Init /\ [][NextStoreSeq]_vars

----------------------------------------------------------------------------
(* Claims about the Express app *)

AllRequests == {finished} \cup {reqs[i] : i \in DOMAIN reqs}
Secrets == {providers(p).client_secret : p \in ProviderNames}
ShownToDevice(res) == {res.to} \cup {res.params[k] : k \in DOMAIN res.params}

\* the stored record a tokens request found, if any
Found(r) == r.kind = "tokens" /\ r.before # {}
FoundDoc(r) == CHOOSE x \in r.before : TRUE
\* seconds the found record still had to live when the request arrived
Remaining(r) == ValOf(FoundDoc(r).expires_at) - r.at
FoundFresh(r) ==
    Found(r) /\ FoundDoc(r).expires_at # NullNum /\ Remaining(r) > FRESHNESS_WINDOW
FoundStale(r) ==
    Found(r) /\ FoundDoc(r).expires_at # NullNum /\ Remaining(r) < FRESHNESS_WINDOW

\* C1: the collection never holds two documents for one (device_id, provider)
\* pair, whatever callbacks and token requests have been served.
C1_OneRecordPerKey ==
    \A x \in coll, y \in coll :
        (x.device_id = y.device_id /\ x.provider = y.provider) => x = y

\* a record was saved over an existing record of the same key
C1_Witness ==
    /\ finished.writes # <<>>
    /\ finished.writes[1].op = "set"
    /\ finished.before # {}
    /\ finished.after # finished.before
    /\ Cardinality(finished.after) = 1

\* C5: no redirect or JSON body sent to the device carries a client_secret,
\* and every POST that carries one goes to the token endpoint of the provider
\* the secret belongs to.
C5_ClientSecretNotExposed ==
    \A r \in AllRequests :
        /\ ShownToDevice(r.res) \cap Secrets = {}
        /\ \A j \in DOMAIN r.posts :
              /\ r.posts[j].uri = providers(r.providerName).token_uri
              /\ r.posts[j].body.client_secret = providers(r.providerName).client_secret

\* beginAuth has redirected a device, and a callback has sent the secret to
\* the token endpoint
C5_Witness ==
    /\ finished.kind = "auth"
    /\ finished.res.type = "redirect"
    /\ finished.res.params.client_id = providers(finished.providerName).client_id
    /\ \E i \in DOMAIN reqs : reqs[i].kind = "callback" /\ Len(reqs[i].posts) = 1

\* C6: a callback whose state differs from the one expected for its device id
\* ends at once with a redirect to the app-return URI carrying
\* error=invalid_request, having sent nothing to the token endpoint and
\* written nothing to the store; no such callback is ever left in flight.
C6_StateMismatchAborts ==
    \A r \in AllRequests :
        (r.kind = "callback" /\ r.query.state # oauth2_state(r.device_id)) =>
            /\ r.pc = "done"
            /\ r.res.type = "redirect"
            /\ r.res.to = OAUTH2_RETURN_URI
            /\ r.res.params.error = "invalid_request"
            /\ r.posts = <<>>
            /\ r.writes = <<>>

\* a callback presented the state of another device, with a code
C6_Witness ==
    /\ finished.kind = "callback"
    /\ finished.query.state \in {oauth2_state(d) : d \in DeviceIds \ {finished.device_id}}
    /\ finished.query.error = ""
    /\ finished.res.type = "redirect"

\* C7: a token request that finds a record expiring more than the freshness
\* window after the request's arrival is answered at once with that record's
\* access_token, sends nothing to the provider and writes nothing.
C7_FreshTokenServed ==
    \A r \in AllRequests :
        FoundFresh(r) =>
            /\ r.pc = "done"
            /\ r.res.type = "json"
            /\ r.res.status = 200
            /\ r.res.params.access_token = FoundDoc(r).access_token
            /\ r.posts = <<>>
            /\ r.writes = <<>>

\* a fresh record with an expiry was served
C7_Witness ==
    /\ FoundFresh(finished)
    /\ finished.res.type = "json"
    /\ KeyDocs(coll, finished.device_id, finished.providerName) = finished.before

\* the refresh of request r succeeded: 2xx, and a body that is no error
RefreshSucceeded(r) == r.ok /\ r.tokenRes.error = "" /\ r.tokenRes.access_token # ""

\* C8: a token request that finds a stale record with a refresh token sends
\* exactly one POST, the refresh request for that refresh token; when the
\* refresh succeeded, the request ends having saved, under its own key, one
\* record holding the new access_token, and answers with the new access_token.
C8_StaleRefreshedOnce ==
    \A r \in AllRequests :
        (FoundStale(r) /\ FoundDoc(r).refresh_token # "") =>
            /\ r.posts = <<refreshTokensRequest(r.providerName, FoundDoc(r).refresh_token)>>
            /\ r.posts[1].body.refresh_token = FoundDoc(r).refresh_token
            /\ r.posts[1].body.grant_type = "refresh_token"
            /\ (r.pc = "done" /\ RefreshSucceeded(r)) =>
                  /\ r.writes = <<[op |-> "set", id |-> docId(r.device_id, r.providerName)]>>
                  /\ Cardinality(r.after) = 1
                  /\ \A x \in r.after :
                        /\ x.device_id = r.device_id
                        /\ x.provider = r.providerName
                        /\ x.access_token = r.tokenRes.access_token
                  /\ r.res.type = "json"
                  /\ r.res.params.access_token = r.tokenRes.access_token

\* a stale record was refreshed and the new token differs from the stale one
C8_Witness ==
    /\ FoundStale(finished)
    /\ FoundDoc(finished).refresh_token # ""
    /\ RefreshSucceeded(finished)
    /\ finished.res.type = "json"
    /\ finished.res.params.access_token # FoundDoc(finished).access_token

\* C9: a token request that finds a record that is stale and has no refresh
\* token deletes it, sends nothing to the provider and answers 404; right
\* after the delete no record is left under the key.
C9_ExpiredUnrefreshableIs404 ==
    (FoundStale(finished) /\ FoundDoc(finished).refresh_token = "") =>
        /\ finished.writes = <<[op |-> "delete", id |-> docId(finished.device_id, finished.providerName)]>>
        /\ finished.after = {}
        /\ finished.posts = <<>>
        /\ finished.res.type # "none"
        /\ finished.res.status = 404

\* C10: when the provider rejects the refresh of a stale record, the record is
\* deleted, the caller gets an upstream-failure answer (502, or a JSON body
\* naming the provider's error) and never the stale access_token.
C10_RejectedRefreshReported ==
    (FoundStale(finished) /\ finished.tokenRes.error # "") =>
        /\ finished.writes = <<[op |-> "delete", id |-> docId(finished.device_id, finished.providerName)]>>
        /\ finished.after = {}
        /\ FoundDoc(finished).access_token \notin ShownToDevice(finished.res)
        /\ \/ finished.res.status = 502
           \/ /\ finished.res.type = "json"
              /\ "error" \in DOMAIN finished.res.params
              /\ finished.res.params.error = finished.tokenRes.error

----------------------------------------------------------------------------
(* Claims about the storage classes *)

\* the call last returned was a load made right after a call of kind op on
\* the same key, no other call being in flight during either
LoadedRightAfter(op) ==
    /\ last.op = "load"
    /\ last.prevOp = op
    /\ last.prevDeviceId = last.deviceId
    /\ last.prevProvider = last.provider

\* C2: whatever way the steps of concurrent FirestoreTokenStorage.save calls
\* interleave, the collection never holds two documents for one
\* (device_id, provider) pair.
C2_NoDoubleInsert ==
    \A d \in DeviceIds, p \in ProviderNames : Len(FsWhere(fs, d, p)) <= 1

\* C3: a load made right after a save of the same key returns, from
\* MemoryTokenStorage and from FirestoreTokenStorage, the record saved,
\* whether the save added the record or replaced one.
C3_SaveLoadRoundTrip ==
    LoadedRightAfter("save") =>
        /\ last.memoryResult = last.prevTokens
        /\ last.firestoreResult = last.prevTokens

\* a save replaced the record of a key holding another one, and the load
\* right after it returned the new record
C3_Witness ==
    /\ LoadedRightAfter("save")
    /\ last.prevRefs # {}
    /\ last.memoryHad /\ last.firestoreHad
    /\ last.firestoreResult = last.prevTokens
    /\ \E i \in last.prevRefs : i < issued - 1

\* C4: a load made right after a delete of the same key returns null from
\* both classes; a delete of a key that holds no record does not fail and
\* changes nothing.
C4_DeleteThenAbsent ==
    /\ LoadedRightAfter("delete") =>
          /\ last.memoryResult = NoRecord
          /\ last.firestoreResult = NoRecord
    /\ \A c \in {last} \cup {calls[i] : i \in DOMAIN calls} :
          c.op = "delete" =>
              /\ ~c.firestoreFailed
              /\ ~c.memoryHad => ~c.memoryChanged
              /\ ~c.firestoreHad => (c.pc = "done" /\ ~c.firestoreChanged)

\* a delete removed a stored record and the load right after it found none
C4_Witness ==
    /\ LoadedRightAfter("delete")
    /\ last.prevRefs # {}
    /\ last.firestoreResult = NoRecord
    /\ last.memoryResult = NoRecord
    /\ ~last.memoryHad /\ ~last.firestoreHad

----------------------------------------------------------------------------
(* Claims about the Express app, continued *)

\* C11: when a refresh succeeded and the provider's answer carries no
\* refresh_token, the record saved keeps the refresh_token of the record
\* that was refreshed.
C11_RefreshTokenKept ==
    \A r \in AllRequests :
        ( /\ FoundStale(r)
          /\ FoundDoc(r).refresh_token # ""
          /\ r.pc = "done"
          /\ RefreshSucceeded(r)
          /\ r.tokenRes.refresh_token = "" ) =>
            /\ r.after # {}
            /\ \A x \in r.after : x.refresh_token = FoundDoc(r).refresh_token

\* the token endpoint has answered the code exchange of callback r
Exchanged(r) == r.kind = "callback" /\ r.posts # <<>> /\ r.pc # "exchange"

\* C12: a request whose token-endpoint response was not 2xx never saves a
\* record, whatever the body of the response.
C12_NonOkNeverSaved ==
    \A r \in AllRequests :
        (r.posts # <<>> /\ r.pc # "exchange" /\ r.pc # "refreshing" /\ ~r.ok) =>
            /\ r.pc # "saving"
            /\ \A j \in DOMAIN r.writes : r.writes[j].op # "set"

\* the code exchange of callback r succeeded: 2xx, tokens and no error
ExchangeSucceeded(r) ==
    Exchanged(r) /\ r.ok /\ r.tokenRes.error = "" /\ r.tokenRes.access_token # ""

\* C13: a callback whose code exchange succeeded sends no response before its
\* save, and ends with the record of its key holding the returned access_token
\* and refresh_token and with a redirect to the app-return URI carrying
\* provider, access_token and expires_in.
C13_CallbackSavesThenRedirects ==
    \A r \in AllRequests :
        ExchangeSucceeded(r) =>
            /\ r.pc = "saving" => (r.res = NoResponse /\ r.writes = <<>>)
            /\ r.pc = "done" =>
                  /\ r.writes = <<[op |-> "set", id |-> docId(r.device_id, r.providerName)]>>
                  /\ Cardinality(r.after) = 1
                  /\ \A x \in r.after :
                        /\ x.device_id = r.device_id
                        /\ x.provider = r.providerName
                        /\ x.access_token = r.tokenRes.access_token
                        /\ x.refresh_token = r.tokenRes.refresh_token
                  /\ r.res = Redirect(OAUTH2_RETURN_URI,
                                [ provider     |-> r.providerName,
                                  access_token |-> r.tokenRes.access_token,
                                  expires_in   |-> NumText(r.tokenRes.expires_in) ])

\* a callback replaced the record of its key by one with other tokens
C13_Witness ==
    /\ ExchangeSucceeded(finished)
    /\ finished.pc = "done"
    /\ finished.before # {}
    /\ finished.after # finished.before
    /\ finished.tokenRes.refresh_token # ""
    /\ finished.res.params.access_token = finished.tokenRes.access_token

\* C15: a callback with the right state whose query carries an error ends at
\* once with a redirect to the app-return URI echoing that error, having sent
\* nothing to the token endpoint and written nothing.
C15_ProviderErrorEchoed ==
    \A r \in AllRequests :
        ( /\ r.kind = "callback"
          /\ r.query.state = oauth2_state(r.device_id)
          /\ r.query.error # "" ) =>
            /\ r.pc = "done"
            /\ r.res = Redirect(OAUTH2_RETURN_URI,
                          [provider |-> r.providerName, error |-> r.query.error])
            /\ r.posts = <<>>
            /\ r.writes = <<>>

\* such a callback arrived while the key had a record, which is still there
C15_Witness ==
    /\ finished.kind = "callback"
    /\ finished.query.state = oauth2_state(finished.device_id)
    /\ finished.query.error = "access_denied"
    /\ finished.res.type = "redirect"
    /\ KeyDocs(coll, finished.device_id, finished.providerName) # {}

C17_GarbledExchangeReported ==
    \A r \in AllRequests :
        (Exchanged(r) /\ ~r.ok /\ r.tokenRes = EmptyBody) =>
            /\ r.pc = "done"
            /\ r.res.type = "redirect"
            /\ r.res.to = OAUTH2_RETURN_URI
            /\ "error" \in DOMAIN r.res.params
            /\ r.res.params.error \in OAuth2ErrorCodes
            /\ r.writes = <<>>

\* the save of request r was rejected by the store
SaveFailed(r) == \E j \in DOMAIN r.writes : r.writes[j].op = "set_failed"

\* C14: a callback whose save is rejected by the store ends with a redirect
\* to the app-return URI that carries provider and error=server_error and
\* nothing else.
C14_SaveFailureIsServerError ==
    \A r \in AllRequests :
        (r.kind = "callback" /\ SaveFailed(r)) =>
            /\ r.pc = "done"
            /\ r.res = Redirect(OAUTH2_RETURN_URI,
                          [provider |-> r.providerName, error |-> "server_error"])

\* C19: a request with no device id is answered 400, a request naming an
\* unknown provider is answered 404; neither redirects, sends anything to a
\* token endpoint or touches the store.
C19_BadRequestsRefused ==
    \A r \in AllRequests :
        (r.kind # "none" /\ (r.device_id = "" \/ r.providerName \notin ProviderNames)) =>
            /\ r.kind = "refused"
            /\ r.pc = "done"
            /\ r.res.type # "redirect"
            /\ r.res.status = IF r.device_id = "" THEN 400 ELSE 404
            /\ r.posts = <<>>
            /\ r.writes = <<>>
            /\ r.before = {} /\ r.after = {}

----------------------------------------------------------------------------
(* Claims about getToken in the Express app and in the Koa app *)

\* token request r, to either app, found no record under its key
FoundNothing(r) ==
    \/ r.kind = "tokens" /\ ~r.tokens.found
    \/ r.kind = "koa_tokens" /\ r.data = NoRecord

\* C18: a token request for a key with no record is answered 404, sends
\* nothing to the provider and writes nothing.
C18_NoRecordIs404 ==
    \A r \in AllRequests :
        FoundNothing(r) =>
            /\ r.pc = "done"
            /\ r.res.status = 404
            /\ r.posts = <<>>
            /\ r.writes = <<>>

\* token request r, to either app, found a record whose expires_at is null
FoundNonExpiring(r) ==
    \/ Found(r) /\ FoundDoc(r).expires_at = NullNum
    \/ r.kind = "koa_tokens" /\ r.posts = <<>> /\ r.data # NoRecord /\ r.data.expires_at = NullNum
    \/ r.kind = "koa_tokens" /\ r.posts # <<>> /\ r.pc = "refreshing" /\ r.data.expires_at = NullNum

\* the access_token of the record token request r found
StoredAccessToken(r) ==
    IF r.kind = "tokens" THEN FoundDoc(r).access_token ELSE r.data.access_token

\* C20: a token request that finds a record whose expires_at is null is
\* answered at once with the stored access_token, sends nothing to the
\* provider and writes nothing, whatever the time.
C20_NullExpiryNeverExpires ==
    \A r \in AllRequests :
        FoundNonExpiring(r) =>
            /\ r.pc = "done"
            /\ r.res.type = "json"
            /\ r.res.status = 200
            /\ "access_token" \in DOMAIN r.res.params
            /\ r.res.params.access_token = StoredAccessToken(r)
            /\ r.posts = <<>>
            /\ r.writes = <<>>

----------------------------------------------------------------------------
(* Claims about beginAuth *)

\* this step served a beginAuth request, of either app, from arrival to answer
BeginAuthStep ==
    /\ received' = received + 1
    /\ reqs' = reqs
    /\ finished'.kind \in {"auth", "koa_auth"}

\* C21: a step that serves a beginAuth request leaves both stores as they
\* were, and the request has sent nothing to the provider.
C21_BeginAuthPersistsNothing ==
    [][BeginAuthStep => (coll' = coll /\ fs' = fs /\ mem' = mem /\ finished'.posts = <<>>)]_vars

\* beginAuth was served while the store held a record
C21_Witness ==
    /\ finished.kind = "auth"
    /\ finished.res.type = "redirect"
    /\ coll # {}

\* the fields of a provider's config beyond the ones every provider has:
\* force_reapprove (dropbox), access_type and prompt (google)
ProviderExtras(providerName) ==
    DOMAIN providers(providerName)
        \ {"authorization_uri", "client_id", "client_secret", "revoke_uri", "scope", "token_uri"}

\* C22: the redirect of beginAuth goes to the provider's authorization_uri
\* and carries client_id, redirect_uri, response_type=code, scope and state,
\* and every extra parameter of the provider's config with its value.
C22_AuthUrlCarriesExtras ==
    \A r \in AllRequests :
        r.kind = "auth" =>
            /\ r.res.type = "redirect"
            /\ r.res.to = providers(r.providerName).authorization_uri
            /\ {"client_id", "redirect_uri", "response_type", "scope", "state"} \subseteq DOMAIN r.res.params
            /\ r.res.params.client_id = providers(r.providerName).client_id
            /\ r.res.params.redirect_uri = createRedirectUri(r.providerName)
            /\ r.res.params.response_type = "code"
            /\ r.res.params.scope = providers(r.providerName).scope
            /\ r.res.params.state = oauth2_state(r.device_id)
            /\ \A k \in ProviderExtras(r.providerName) :
                  /\ k \in DOMAIN r.res.params
                  /\ r.res.params[k] = providers(r.providerName)[k]

----------------------------------------------------------------------------
(* Claims about the start of the service *)

\* the credentials of provider providerName are both there
HasCredentials(providerName) ==
    /\ providers(providerName).client_id # ""
    /\ providers(providerName).client_secret # ""

\* C23: every request the app has taken up, beginAuth, handleCallback or
\* getToken, is for a provider whose client_id and client_secret are both
\* non-empty: a deployment lacking one never comes to serve.
C23_NeverServesWithoutCredentials ==
    \A r \in AllRequests :
        r.kind \in {"auth", "callback", "tokens"} =>
            /\ phase = "serving"
            /\ HasCredentials(r.providerName)

----------------------------------------------------------------------------
(* Claims about the keys of the Token Store *)

\* the storage call made in this step, if one was made
CallMade == IF (issued + 1) \in DOMAIN calls' THEN calls'[issued + 1] ELSE last'

\* this step is a step of a save or delete call on key (d, p), or the end of
\* a request of device d for provider p that wrote to the store
ActsOn(d, p) ==
    \/ /\ issued' = issued + 1
       /\ CallMade.op \in {"save", "delete"}
       /\ CallMade.deviceId = d /\ CallMade.provider = p
    \/ /\ issued' = issued
       /\ \E i \in DOMAIN calls :
             /\ calls[i].op \in {"save", "delete"}
             /\ calls[i].deviceId = d /\ calls[i].provider = p
             /\ (i \notin DOMAIN calls' \/ calls'[i] # calls[i])
    \/ /\ received' = received
       /\ finished'.writes # <<>>
       /\ finished'.device_id = d /\ finished'.providerName = p

\* C24: whenever a step changes what load answers for a key, in
\* MemoryTokenStorage, in FirestoreTokenStorage or in the Express app's
\* collection, the step belongs to a save or delete on that very key; so a
\* save or delete on one key leaves load of every other key as it was, also
\* between the steps of other calls.
C24_KeysIndependent ==
    [][\A d \in DeviceIds, p \in ProviderNames :
          (\/ MemoryLoad(mem', d, p) # MemoryLoad(mem, d, p)
           \/ FirestoreLoad(fs', d, p) # FirestoreLoad(fs, d, p)
           \/ loadTokens(coll', d, p, now) # loadTokens(coll, d, p, now))
              => ActsOn(d, p)]_vars

\* a record was deleted from both stores while the same device held a record
\* for another provider, and that record is still there in both
C24_Witness ==
    /\ last.op = "delete" /\ last.memoryChanged /\ last.firestoreChanged
    /\ \E p \in ProviderNames \ {last.provider} :
          /\ MemoryLoad(mem, last.deviceId, p) # NoRecord
          /\ FirestoreLoad(fs, last.deviceId, p) # NoRecord
    /\ MemoryLoad(mem, last.deviceId, last.provider) = NoRecord

----------------------------------------------------------------------------
(* Claims about the two storage classes side by side *)

\* C25: under calls made one after the other, from empty stores, every load
\* returns the same from MemoryTokenStorage and from FirestoreTokenStorage:
\* null from both or equal records; and no call fails in one class only.
C25_StoragesAgree ==
    /\ last.op = "load" => last.memoryResult = last.firestoreResult
    /\ ~last.firestoreFailed
    /\ calls = <<>> =>
          \A d \in DeviceIds, p \in ProviderNames :
              MemoryLoad(mem, d, p) = FirestoreLoad(fs, d, p)

\* a key was saved, deleted and then loaded, and both classes answered null
\* though the key had held a record
C25_Witness ==
    /\ last.op = "load"
    /\ last.prevOp = "delete"
    /\ last.prevDeviceId = last.deviceId /\ last.prevProvider = last.provider
    /\ last.prevRefs # {}
    /\ last.memoryResult = NoRecord /\ last.firestoreResult = NoRecord
    /\ issued = 3

----------------------------------------------------------------------------
(* Claims about the end of a getToken request *)

\* res.json({ access_token, expires_in })
IsTokenJson(res) ==
    res.type = "json" /\ res.status = 200 /\ DOMAIN res.params = {"access_token", "expires_in"}

\* 404
IsNotFound(res) == res.type # "none" /\ res.status = 404

\* a report of the provider's refusal: 502, or a JSON body with the error
IsUpstreamFailure(res) ==
    \/ res.type # "none" /\ res.status = 502
    \/ res.type = "json" /\ "error" \in DOMAIN res.params

\* C26: given that every provider call and every store call returns, the
\* handler of every getToken request comes to its end, and a handler that
\* has ended has sent a token JSON, a not-found or an upstream-failure
\* report.
C26_GetTokenAlwaysAnswers ==
    /\ \A i \in 1..MaxRequests :
          [](i \in DOMAIN reqs => <>(i \notin DOMAIN reqs))
    /\ [](\A r \in AllRequests :
            (r.kind = "tokens" /\ r.pc = "done") =>
                \/ IsTokenJson(r.res)
                \/ IsNotFound(r.res)
                \/ IsUpstreamFailure(r.res))

----------------------------------------------------------------------------
(* Claims about what changes the Express app's store *)

\* the provider rejected the refresh of token request r
RefreshRejected(r) == r.kind = "tokens" /\ r.posts # <<>> /\ r.tokenRes.error # ""

\* C27: every step that changes the collection is the end of a request that
\* wrote its own key, and: it put a record where none was only if it is a
\* callback whose code exchange succeeded; it replaced a record only if it
\* is such a callback or a token request whose refresh succeeded; it removed
\* a record only if it is a token request whose refresh was rejected or that
\* found the record stale with no refresh_token.
C27_StoreChangesHaveCause ==
    [][coll' # coll =>
        LET w == finished'
            old == KeyDocs(coll, w.device_id, w.providerName)
            new == KeyDocs(coll', w.device_id, w.providerName)
        IN  /\ received' = received
            /\ w.writes # <<>>
            /\ \A x \in (coll' \ coll) \cup (coll \ coll') :
                  x.device_id = w.device_id /\ x.provider = w.providerName
            /\ (old = {} /\ new # {}) => ExchangeSucceeded(w)
            /\ (old # {} /\ new # {}) =>
                  \/ ExchangeSucceeded(w)
                  \/ w.kind = "tokens" /\ RefreshSucceeded(w)
            /\ new = {} =>
                  \/ RefreshRejected(w)
                  \/ FoundStale(w) /\ FoundDoc(w).refresh_token = "" /\ w.posts = <<>>
    ]_vars

----------------------------------------------------------------------------
(* Claims about retries *)

\* the token endpoint has answered request r, and not with a 2xx carrying
\* tokens
ProviderCallFailed(r) ==
    /\ r.posts # <<>>
    /\ r.pc \notin {"exchange", "refreshing"}
    /\ ~(r.ok /\ r.tokenRes.error = "" /\ r.tokenRes.access_token # "")

\* C28: no request sends more than one POST to the token endpoint, a
\* callback only its code exchange and a token request only its refresh,
\* also once the POST has failed; and a request whose POST failed and whose
\* handler has ended has sent its one response to the caller.
C28_NoRetries ==
    \A r \in AllRequests :
        /\ Len(r.posts) <= 1
        /\ \A j \in DOMAIN r.posts :
              \/ r.kind = "callback" /\ r.posts[j].body.grant_type = "authorization_code"
              \/ r.kind = "tokens" /\ r.posts[j].body.grant_type = "refresh_token"
        /\ (ProviderCallFailed(r) /\ r.pc = "done") => r.res.type # "none"

----------------------------------------------------------------------------
(* Claims about the authorization flow and its state token *)

\* every request received so far is still to be seen: in flight, or the one
\* that ended last
AllVisible ==
    Cardinality(DOMAIN reqs) + (IF finished = NoRequest THEN 0 ELSE 1) = received

\* the requests seen that are a beginAuth
BeginAuths == {a \in AllRequests : a.kind = "auth"}

\* in this step a callback of device d for provider p arrives, passes the
\* state check and sends its code exchange
CallbackPasses(d, p) ==
    /\ received' = received + 1
    /\ (received + 1) \in DOMAIN reqs'
    /\ reqs'[received + 1].kind = "callback"
    /\ reqs'[received + 1].pc = "exchange"
    /\ reqs'[received + 1].device_id = d
    /\ reqs'[received + 1].providerName = p

\* C29: a callback reaches the code exchange only if a beginAuth of the
\* same device for the same provider came before it.  Stated for the steps
\* before which every earlier request is still to be seen, and for a
\* callback presenting a state that an earlier beginAuth handed out.
C29_ExchangeOnlyAfterBeginAuth ==
    [][\A d \in DeviceIds, p \in ProviderNames :
          ( /\ CallbackPasses(d, p)
            /\ AllVisible
            /\ \E a \in BeginAuths : a.res.params.state = reqs'[received + 1].query.state )
              => \E a \in BeginAuths : a.device_id = d /\ a.providerName = p]_vars

\* callback r, of either app, was turned away by the state check
StateCheckFailed(r) ==
    /\ r.pc = "done"
    /\ r.posts = <<>>
    /\ r.res.type = "redirect"
    /\ r.res.params.error = "invalid_request"

\* C30: the state beginAuth hands out is the keyed hash of the device id,
\* the same for every provider and every time; and a callback passes the
\* state check exactly when it presents the hash of its own device id,
\* whatever the store holds and whatever requests came before.
C30_StateIsFunctionOfDevice ==
    \A r \in AllRequests :
        /\ r.kind \in {"auth", "koa_auth"} =>
              r.res.params.state = oauth2_state(r.device_id)
        /\ r.kind \in {"callback", "koa_callback"} =>
              (StateCheckFailed(r) <=> r.query.state # oauth2_state(r.device_id))

\* two callbacks presented the same state, the hash of one device's id: the
\* callback of that device passed, the callback of the other device was
\* turned away
C30_Witness ==
    /\ finished.kind = "callback"
    /\ StateCheckFailed(finished)
    /\ finished.query.state # ""
    /\ \E i \in DOMAIN reqs :
          /\ reqs[i].kind = "callback"
          /\ reqs[i].query.state = finished.query.state
          /\ reqs[i].device_id # finished.device_id
          /\ reqs[i].posts # <<>>

----------------------------------------------------------------------------
(* Claims about the stored expiry *)

\* the handler of request i takes, in this step, the token endpoint's answer
\* and goes on to save the tokens
TakesTokens(i) ==
    /\ i \in DOMAIN reqs /\ i \in DOMAIN reqs'
    /\ reqs[i].pc \in {"exchange", "refreshing"}
    /\ reqs'[i].pc \in {"saving", "save_query"}

\* the clock, in seconds, as request r's app reads it
ClockOf(r) ==
    IF r.kind \in {"koa_callback", "koa_tokens"} THEN DateNow(now) \div 1000 ELSE now

\* the write of request i lands in this step
WriteLands(i) ==
    /\ i \in DOMAIN reqs /\ i \notin DOMAIN reqs'
    /\ reqs[i].kind \in {"callback", "tokens"}
    /\ reqs[i].pc = "saving"
    /\ coll' # coll

\* C31: when a handler takes an answer with expires_in = n > 0 at time t,
\* the record it is about to save has expires_at in t + n - 5 .. t + n; and
\* the record that is written later carries that very expires_at, however
\* long the write takes.
C31_ExpiryAbsoluteAtReceipt ==
    [][\A i \in DOMAIN reqs :
          /\ (TakesTokens(i) /\ TruthyNum(reqs'[i].tokenRes.expires_in)) =>
                /\ reqs'[i].data.expires_at # NullNum
                /\ ValOf(reqs'[i].data.expires_at) \in
                      (ClockOf(reqs[i]) + ValOf(reqs'[i].tokenRes.expires_in) - 5)
                          .. (ClockOf(reqs[i]) + ValOf(reqs'[i].tokenRes.expires_in))
          /\ WriteLands(i) =>
                \A x \in KeyDocs(coll', reqs[i].device_id, reqs[i].providerName) :
                    x.expires_at = reqs[i].data.expires_at]_vars

\* a callback took tokens with an expires_in when the clock had advanced,
\* and the record it wrote expires that long after the clock's reading
C31_Witness ==
    /\ finished.kind = "callback"
    /\ now > 0
    /\ TruthyNum(finished.tokenRes.expires_in)
    /\ finished.after # {}
    /\ \A x \in finished.after :
          x.expires_at = Num(now + ValOf(finished.tokenRes.expires_in))

----------------------------------------------------------------------------
(* Claims about the Koa token handler's expiry test *)

\* request r of the Koa token handler found a record, and r.data still holds
\* it: the handler has not gone past the refresh
KoaLoaded(r) ==
    /\ r.kind = "koa_tokens"
    /\ r.data # NoRecord
    /\ \/ r.posts = <<>>
       \/ r.pc = "refreshing"
       \/ r.pc = "done" /\ ~r.ok

\* the record found had passed its expires_at, in seconds, when it was loaded
KoaFoundExpired(r) ==
    /\ KoaLoaded(r)
    /\ r.data.expires_at # NullNum
    /\ ValOf(r.data.expires_at) < DateNow(r.at) \div 1000

\* the record found had its expires_at, in seconds, still ahead
KoaFoundUnexpired(r) ==
    /\ KoaLoaded(r)
    /\ r.data.expires_at # NullNum
    /\ ValOf(r.data.expires_at) > DateNow(r.at) \div 1000

\* the token endpoint answered the refresh with a non-2xx JSON body
KoaRefreshRejected(r) ==
    r.posts # <<>> /\ r.pc = "done" /\ ~r.ok /\ r.res = KoaNoBody

\* the record found has no refresh_token, the handler falls through
KoaUnrefreshable(r) ==
    r.posts = <<>> /\ r.pc = "done" /\ r.data.refresh_token = "" /\ r.res = KoaNoBody

\* C32: once a Koa token request that found an expired record has ended,
\* either with its refresh rejected or for want of a refresh_token, the store
\* holds no record for the key: load answers null.
C32_KoaExpiredRemoved ==
    (KoaFoundExpired(finished) /\ (KoaRefreshRejected(finished) \/ KoaUnrefreshable(finished))) =>
        FirestoreLoad(fs, finished.device_id, finished.providerName) = NoRecord

\* C33: a Koa token request that finds a record whose expires_at, in epoch
\* seconds, lies ahead is answered with the stored access_token and sends
\* nothing to the provider.
C33_KoaUnexpiredServed ==
    \A r \in AllRequests :
        KoaFoundUnexpired(r) =>
            /\ r.pc = "done"
            /\ r.posts = <<>>
            /\ r.res.type = "json"
            /\ r.res.status = 200
            /\ "access_token" \in DOMAIN r.res.params
            /\ r.res.params.access_token = r.data.access_token

----------------------------------------------------------------------------
(* Token requests racing on one record *)

\* the record a callback of device d1 saved for dropbox at clock reading 0,
\* from tokens living 90 seconds: fresh until the clock advances
EarlierTokens ==
    [ found         |-> TRUE,
      access_token  |-> IssuedToken(0),
      expires_in    |-> Num(90),
      refresh_token |-> "rt1" ]

\* the app with that record in its store and no request in flight
InitRace ==
    /\ now = 0
    /\ coll = saveTokens({}, saveTokensData("d1", "dropbox", EarlierTokens, 0))
    /\ received = 0
    /\ reqs = <<>>
    /\ finished = NoRequest
    /\ mem = <<>>
    /\ fs = EmptyCollection
    /\ issued = 0
    /\ calls = <<>>
    /\ last = NoCall
    /\ env = ConfiguredEnv
    /\ phase = "serving"
    /\ cookies = NoCookies

\* token requests only
NextRace ==
    \/ \E d \in DeviceIds, p \in ProviderNames : GetTokens(d, p)
    \/ \E i \in DOMAIN reqs : \E response \in TokenEndpointResponses(i) : TokensRefreshed(i, response)
    \/ \E i \in DOMAIN reqs : TokensSaved(i)
    \/ \E i \in DOMAIN reqs : TokensDeleted(i)
    \/ Tick

SpecRace == InitRace /\ [][NextRace]_vars

\* request i, its refresh rejected, gets its deleteTokens done in this step
DeletesAfterRejection(i) ==
    /\ i \in DOMAIN reqs /\ i \notin DOMAIN reqs'
    /\ reqs[i].kind = "tokens"
    /\ reqs[i].pc = "deleting_rejected"

\* C34: the delete of a token request whose refresh was rejected removes
\* nothing but the record that request loaded; a record another request saved
\* from its own successful refresh stays in the store.
C34_RejectedSparesRefreshed ==
    [][\A i \in DOMAIN reqs :
          DeletesAfterRejection(i) =>
              \A x \in KeyDocs(coll, reqs[i].device_id, reqs[i].providerName)
                          \ KeyDocs(coll', reqs[i].device_id, reqs[i].providerName) :
                  x.access_token = reqs[i].tokens.access_token]_vars

\* C34 as the code has it: the store write that landed last decides. After
\* the delete of a rejected refresh the key holds nothing, whatever another
\* request saved before; after the save of a successful refresh the key holds
\* that request's tokens.
C34_LastWriteWins ==
    (finished.kind = "tokens" /\ finished.writes # <<>>) =>
        LET stored == KeyDocs(coll, finished.device_id, finished.providerName) IN
        /\ finished.writes[1].op = "delete" => stored = {}
        /\ finished.writes[1].op = "set" =>
              /\ stored # {}
              /\ \A x \in stored : x.access_token = finished.tokenRes.access_token

\* two token requests loaded the same stale record and both refreshed; the
\* one whose refresh was rejected finished last, and its delete removed the
\* record the other had saved
C34_Witness ==
    /\ received = 2 /\ reqs = <<>>
    /\ finished.kind = "tokens"
    /\ finished.tokenRes.error # ""
    /\ finished.writes # <<>> /\ finished.writes[1].op = "delete"
    /\ finished.removed # {}
    /\ \A x \in finished.removed :
          /\ x.device_id = finished.device_id /\ x.provider = finished.providerName
          /\ x.access_token # finished.tokens.access_token
          /\ x.access_token \in {IssuedToken(j) : j \in 1..MaxRequests}
    /\ KeyDocs(coll, finished.device_id, finished.providerName) = {}

----------------------------------------------------------------------------
(* Claims about what the state is bound to *)

\* C35: the state beginAuth handed out for a device and a provider opens no
\* callback of another provider: a callback of that device for a different
\* provider presenting it ends with error=invalid_request, nothing sent to
\* the token endpoint.
C35_StateBoundToProvider ==
    \A r \in AllRequests :
        ( /\ finished.kind = "auth"
          /\ finished.res.type = "redirect"
          /\ r.kind = "callback"
          /\ r.device_id = finished.device_id
          /\ r.providerName # finished.providerName
          /\ r.query.state = finished.res.params.state ) =>
            /\ r.pc = "done"
            /\ r.posts = <<>>
            /\ r.res.type = "redirect"
            /\ r.res.params.error = "invalid_request"

\* the request that arrives in this step
Arrived == IF (received + 1) \in DOMAIN reqs' THEN reqs'[received + 1] ELSE finished'

\* a callback with no provider error arrives in this step, right after a
\* beginAuth, and presents the state that beginAuth handed out
PresentsHandedOutState ==
    /\ received' = received + 1
    /\ finished.kind = "auth"
    /\ finished.res.type = "redirect"
    /\ Arrived.kind = "callback"
    /\ Arrived.query.error = ""
    /\ Arrived.query.state = finished.res.params.state

\* C35 as the code has it: the state is bound to the device and to nothing
\* else. A callback presenting the state beginAuth handed out goes on to the
\* code exchange when it comes from the same device, whatever its provider,
\* and ends with error=invalid_request when it comes from another device.
C35_StateBoundToDevice ==
    [][PresentsHandedOutState =>
          IF Arrived.device_id = finished.device_id
            THEN Arrived.pc = "exchange" /\ Len(Arrived.posts) = 1
            ELSE StateCheckFailed(Arrived)]_vars

\* beginAuth handed a state to a device for one provider, and a callback of
\* that device for another provider presenting it waits on its code exchange
C35_Witness ==
    /\ finished.kind = "auth"
    /\ finished.res.type = "redirect"
    /\ \E i \in DOMAIN reqs :
          /\ reqs[i].kind = "callback"
          /\ reqs[i].device_id = finished.device_id
          /\ reqs[i].providerName # finished.providerName
          /\ reqs[i].query.state = finished.res.params.state
          /\ reqs[i].pc = "exchange"
          /\ Len(reqs[i].posts) = 1

----------------------------------------------------------------------------
(* The random-state Koa app *)

NextRandom ==
    \/ \E d \in DeviceIds, p \in ProviderNames, state \in RandomStates : RandomAuth(d, p, state)
    \/ \E d \in DeviceIds, p \in ProviderNames, q \in RandomCallbackQueries : RandomCallback(d, p, q)
    \/ \E i \in DOMAIN reqs : \E response \in TokenEndpointResponses(i) : RandomExchanged(i, response)
    \/ \E d \in DeviceIds, p \in ProviderNames : RandomGetToken(d, p)

SpecRandom == Init /\ [][NextRandom]_vars

\* a callback arrives at the random-state app in this step
RandomCallbackArrives ==
    /\ received' = received + 1
    /\ Arrived.kind = "random_callback"

\* C36: a callback goes on to the code exchange only if the browser holds an
\* oauth2-state cookie and the query presents that very state; a callback
\* from a browser holding no such cookie ends with error=invalid_request,
\* nothing sent to the token endpoint, whether or not its query has a state.
C36_ExchangeNeedsCookie ==
    [][RandomCallbackArrives =>
          /\ Arrived.pc = "exchange" =>
                /\ cookies[Arrived.device_id] # Undefined
                /\ cookies[Arrived.device_id] = Arrived.query.state
          /\ cookies[Arrived.device_id] = Undefined => StateCheckFailed(Arrived)]_vars

----------------------------------------------------------------------------
(* Tokens that come with no lifetime *)

\* success bodies whose expires_in is 0
ZeroExpiryBodies(serial) ==
    [ access_token  : {IssuedToken(serial)},
      expires_in    : {Num(0)},
      refresh_token : RefreshTokens \cup {""},
      error         : {""} ]

\* the responses above, and success responses with expires_in 0
AnyExpiryResponses(serial) ==
    TokenEndpointResponses(serial)
        \cup [ok : {TRUE}, json : {TRUE}, body : ZeroExpiryBodies(serial)]

\* the query of a callback that passes the state check and carries a code
GoodQuery(device_id) ==
    [state |-> oauth2_state(device_id), error |-> "", code |-> "abc123"]

\* the Express app serving one device, its callbacks all passing the state
\* check, against a token endpoint that may state no lifetime or a lifetime
\* of 0
NextNoLifetime ==
    \/ \E d \in {"d1"}, p \in ProviderNames : HandleCallback(d, p, GoodQuery(d))
    \/ \E i \in DOMAIN reqs : \E response \in AnyExpiryResponses(i) : CallbackExchanged(i, response)
    \/ \E i \in DOMAIN reqs : CallbackSaved(i)
    \/ \E d \in {"d1"}, p \in ProviderNames : GetTokens(d, p)
    \/ \E i \in DOMAIN reqs : \E response \in AnyExpiryResponses(i) : TokensRefreshed(i, response)
    \/ \E i \in DOMAIN reqs : TokensSaved(i)
    \/ \E i \in DOMAIN reqs : TokensDeleted(i)
    \/ Tick

SpecNoLifetime == Init /\ [][NextNoLifetime]_vars

\* request r saved tokens that came with expires_in 0 or with none
SavedWithoutLifetime(r) ==
    /\ r.kind \in {"callback", "tokens"}
    /\ r.pc = "done"
    /\ r.writes # <<>> /\ r.writes[1].op = "set"
    /\ ~TruthyNum(r.tokenRes.expires_in)

\* C37: tokens that came with expires_in 0 or absent are saved with
\* expires_at null; and a token request that finds a record with expires_at
\* null, at whatever time, answers with its access_token, sends no refresh
\* and neither writes nor deletes.
C37_NoLifetimeNeverExpires ==
    /\ SavedWithoutLifetime(finished) =>
          /\ finished.after # {}
          /\ \A x \in finished.after : x.expires_at = NullNum
    /\ \A r \in AllRequests :
          (Found(r) /\ FoundDoc(r).expires_at = NullNum) =>
              /\ r.pc = "done"
              /\ r.res = Json(200, [ access_token |-> FoundDoc(r).access_token,
                                     expires_in   |-> "" ])
              /\ r.posts = <<>>
              /\ r.writes = <<>>
              /\ r.removed = {}

\* a record without expiry, holding a refresh_token, was served after the
\* clock had advanced, and is still in the store
C37_Witness ==
    /\ Found(finished)
    /\ FoundDoc(finished).expires_at = NullNum
    /\ FoundDoc(finished).refresh_token # ""
    /\ finished.at > 0
    /\ finished.res.type = "json"
    /\ KeyDocs(coll, finished.device_id, finished.providerName) = finished.before

----------------------------------------------------------------------------
(* Claims about FirestoreTokenStorage.delete *)

\* delete call i removes a document in this step
DeleteStep(i) ==
    /\ i \in DOMAIN calls
    /\ calls[i].op = "delete" /\ calls[i].pc = "deleting"
    /\ (i \notin DOMAIN calls' \/ calls'[i].todo # calls[i].todo)

\* C38: every step of a delete leaves the documents of all other keys as
\* they were; and when a delete that ran with no other call in flight
\* returns, no document of its key remains, however many there were, and a
\* load of the key finds nothing.
C38_DeleteRemovesEveryMatch ==
    [][\A i \in DOMAIN calls :
          DeleteStep(i) =>
              LET key == <<calls[i].deviceId, calls[i].provider>> IN
              /\ \A k \in DOMAIN fs \ {key} : fs'[k] = fs[k]
              /\ (i \notin DOMAIN calls' /\ calls[i].alone) =>
                    /\ fs'[key] = <<>>
                    /\ FirestoreLoad(fs', calls[i].deviceId, calls[i].provider) = NoRecord]_vars

\* a delete that ran alone found two documents for its key and has returned,
\* and none is left
C38_Witness ==
    /\ last.op = "delete"
    /\ last.pc = "done"
    /\ last.alone
    /\ Cardinality(last.refs) >= 2
    /\ last.todo = {}
    /\ FsWhere(fs, last.deviceId, last.provider) = <<>>

====
